---- MODULE Spec2Model ----
(***************************************************************************)
(* Model of openai-api.cpp: the QueueProvider chunk channel, the streamed  *)
(* chat producer loop of the frontend, and the master-side worker manager  *)
(* with the router it drives.                                              *)
(*                                                                         *)
(* Every QueueProvider method runs its body under mutex_ (lock_guard or    *)
(* unique_lock), so one method body is one atomic step.  The notify that   *)
(* follows the unlock and the condition-variable wait are separate steps.  *)
(***************************************************************************)
EXTENDS Integers, Sequences, FiniteSets, TLC

\* ------------------------------------------------------------------------
\* Bounds of the model
\* ------------------------------------------------------------------------
MaxPush == 3
MaxTime == 4
MaxWait == 2
MaxTimeout == 2
Timeouts == 1..MaxTimeout

\* ------------------------------------------------------------------------
\* State
\* ------------------------------------------------------------------------
VARIABLES
    provider,      \* the QueueProvider under study (record of its fields)
    now,           \* steady_clock::now()
    pc_prod,       \* producer thread: "idle" or about to notify
    pc_ctl,        \* controlling thread: "idle" or about to notify
    cons,          \* consumer thread: position inside wait_pop / wait_pop_for
    last,          \* the provider call that returned most recently
    pushed,        \* history: chunks accepted by push, in order
    received,      \* history: chunks handed to the consumer, in order
    end_called,    \* history: end() or disconnect() has been called
    last_push,     \* history: time of the last accepted push (or construction)
    expired_seen,  \* history: is_ended() was called with the timeout elapsed
    idle_at_call,  \* history: no push for more than timeout_ at the last is_ended()
    stream,        \* streamed chat response: StreamState, the sink, the connection
    workers,           \* WorkerManager::workers_ (id -> WorkerConnection)
    model_to_worker,   \* WorkerManager::model_to_worker_ (name -> worker id)
    pending_requests,  \* WorkerManager::pending_requests_ (request ids)
    router,            \* the master's ModelRouter (modality -> name -> callback)
    reg,               \* per worker: position of its REGISTER_MODEL handler
    req,               \* the client request the master dispatches
    mlast,             \* history: the manager operation that ran most recently
    rlast,             \* history: the router call that returned most recently
    server,            \* Server: current_concurrency_ and the options in force
    handlers,          \* per HTTP worker thread: the POST handler it is running
    boot,              \* ClusterServer::run in auto mode, and the two ports
    relay,             \* a forwarded request on the worker and its way back
    agent,             \* the WorkerClient of worker w1
    wire,              \* history: the last POST to /internal/ and its status
    forwards,          \* forward_request calls in flight and their contexts
    threads            \* master threads: the locks each holds or waits for

pvars == <<provider, now, pc_prod, pc_ctl, cons, last, pushed, received,
           end_called, last_push, expired_seen, idle_at_call>>

\* history of the provider calls, not used by the frontend
hvars == <<last, end_called, last_push, expired_seen, idle_at_call>>

svars == <<stream>>

cvars == <<workers, model_to_worker, pending_requests, router, reg, req, mlast>>

\* the worker's side of the cluster
wvars == <<relay, agent, wire, forwards, threads>>

\* the frontend outside a streamed response
fvars == <<rlast, server, handlers, boot, wvars>>

\* what a step of the master leaves alone besides the provider and the clock
qvars == <<pc_prod, pc_ctl, cons, pushed, received, hvars, svars, fvars>>

vars == <<pvars, svars, cvars, fvars>>

\* ------------------------------------------------------------------------
\* OutputChunk
\* ------------------------------------------------------------------------
ChunkTypes == {"TextDelta", "FinalText", "Embeddings", "Error", "End"}

TextDelta(n) == [type |-> "TextDelta", id |-> n]

is_end(chunk) == chunk.type = "End"

is_error(chunk) == chunk.type = "Error"

\* ------------------------------------------------------------------------
\* QueueProvider: the methods as functions of the provider record p and the
\* clock reading t.  A method that can change the provider returns
\* [p |-> provider after, ret |-> return value]; std::optional<OutputChunk>
\* is a sequence of length 0 or 1.
\* ------------------------------------------------------------------------
QueueProvider(T, t) ==
    [queue_ |-> <<>>, ended_ |-> FALSE, disconnected_ |-> FALSE,
     last_activity_ |-> t, timeout_ |-> T]

check_timeout_locked_NoRecord(p, t) ==
    IF p.ended_ THEN [p |-> p, ret |-> FALSE]
    ELSE IF t - p.last_activity_ > p.timeout_
         THEN [p |-> p, ret |-> TRUE]
         ELSE [p |-> p, ret |-> FALSE]

check_timeout_locked(p, t) ==
    IF p.ended_ THEN [p |-> p, ret |-> FALSE]
    ELSE IF t - p.last_activity_ > p.timeout_
         THEN [p |-> [p EXCEPT !.ended_ = TRUE], ret |-> TRUE]
         ELSE [p |-> p, ret |-> FALSE]

\* a push that does not bump last_activity_
push_NoRefresh(p, chunk, t) ==
    IF p.ended_ \/ p.disconnected_ THEN [p |-> p, ret |-> FALSE]
    ELSE LET c == check_timeout_locked(p, t) IN
         IF c.ret THEN [p |-> c.p, ret |-> FALSE]
         ELSE [p |-> [c.p EXCEPT !.queue_ = Append(@, chunk)], ret |-> TRUE]

push_IgnoreEnded(p, chunk, t) ==
    IF p.disconnected_ THEN [p |-> p, ret |-> FALSE]
    ELSE [p |-> [p EXCEPT !.queue_ = Append(@, chunk), !.last_activity_ = t],
          ret |-> TRUE]

push(p, chunk, t) ==
    IF p.ended_ \/ p.disconnected_ THEN [p |-> p, ret |-> FALSE]
    ELSE LET c == check_timeout_locked(p, t) IN
         IF c.ret THEN [p |-> c.p, ret |-> FALSE]
         ELSE [p |-> [c.p EXCEPT !.queue_ = Append(@, chunk),
                                 !.last_activity_ = t],
               ret |-> TRUE]

\* an end() that also forgets a disconnect
end_ClearDisconnect(p) == [p EXCEPT !.ended_ = TRUE, !.disconnected_ = FALSE]

end(p) == [p EXCEPT !.ended_ = TRUE]

disconnect(p) == [p EXCEPT !.disconnected_ = TRUE, !.ended_ = TRUE]

is_ended(p, t) ==
    LET c == check_timeout_locked(p, t) IN
    [p |-> c.p, ret |-> c.p.ended_ /\ c.p.queue_ = <<>>]

\* an is_writable that does not look at the clock
is_writable_IgnoreTimeout(p, t) ==
    IF p.ended_ \/ p.disconnected_ THEN FALSE
    ELSE TRUE

is_writable(p, t) ==
    IF p.ended_ \/ p.disconnected_ THEN FALSE
    ELSE t - p.last_activity_ <= p.timeout_

is_alive(p, t) ==
    IF p.disconnected_ \/ p.ended_ THEN FALSE
    ELSE t - p.last_activity_ <= p.timeout_

reset_timeout(p, t) == [p EXCEPT !.last_activity_ = t]

set_timeout(p, T) == [p EXCEPT !.timeout_ = T]

pop_KeepHead(p, t) ==
    LET c == check_timeout_locked(p, t) IN
    IF c.ret THEN [p |-> c.p, ret |-> <<>>]
    ELSE IF c.p.queue_ = <<>> THEN [p |-> c.p, ret |-> <<>>]
    ELSE [p |-> c.p, ret |-> <<Head(c.p.queue_)>>]

pop(p, t) ==
    LET c == check_timeout_locked(p, t) IN
    IF c.ret THEN [p |-> c.p, ret |-> <<>>]
    ELSE IF c.p.queue_ = <<>> THEN [p |-> c.p, ret |-> <<>>]
    ELSE [p |-> [c.p EXCEPT !.queue_ = Tail(@)],
          ret |-> <<Head(c.p.queue_)>>]

\* The predicate given to cv_.wait / cv_.wait_for; || short-circuits, so
\* check_timeout_locked runs only when the first three disjuncts are false.
wait_predicate(p, t) ==
    IF p.queue_ # <<>> \/ p.ended_ \/ p.disconnected_
    THEN [p |-> p, ret |-> TRUE]
    ELSE check_timeout_locked(p, t)

\* The statements of wait_pop / wait_pop_for that follow a successful wait.
wait_pop_tail(p, t) ==
    LET c == check_timeout_locked(p, t) IN
    IF c.ret THEN [p |-> c.p, ret |-> <<>>]
    ELSE IF c.p.queue_ = <<>> THEN [p |-> c.p, ret |-> <<>>]
    ELSE [p |-> [c.p EXCEPT !.queue_ = Tail(@)],
          ret |-> <<Head(c.p.queue_)>>]

\* ------------------------------------------------------------------------
\* Provider specification: one producer, one consumer and one controlling
\* thread around a single QueueProvider.
\* ------------------------------------------------------------------------
Call(op, ret, val) == [op |-> op, ret |-> ret, val |-> val]

Idle == [pc |-> "idle", deadline |-> 0]

\* no streamed response in progress
NoStream == [done |-> FALSE, start |-> 0, timeout |-> 0, written |-> <<>>,
             sink_closed |-> FALSE, active |-> FALSE, client_open |-> FALSE,
             closed_midstream |-> FALSE, released |-> FALSE]

\* ------------------------------------------------------------------------
\* Master: the WorkerManager maps and the ModelRouter.  One clock tick is
\* 10 s here, so the sweeper's 30 s are three ticks and the providers'
\* default_timeout of 60 s is six.
\* ------------------------------------------------------------------------
MaxResponses == 2

PruneAfter == 3

DefaultTimeout == 6

WorkerIds == {"w1", "w2"}

\* the model names, in std::string order
ModelNames == <<"m1", "shared">>

Models == {ModelNames[i] : i \in DOMAIN ModelNames}

\* the modalities, in the order listAllModels walks them
ModelTypeOrder == <<"chat", "embedding">>

ModelTypes == {ModelTypeOrder[i] : i \in DOMAIN ModelTypeOrder}

\* the id generate_request_id gives the request
RequestId == 1

\* std::map: empty, operator[] assignment, erase
EmptyMap == [x \in {} |-> {}]

MapPut(f, k, v) == [x \in DOMAIN f \cup {k} |-> IF x = k THEN v ELSE f[x]]

MapErase(f, ks) == [x \in DOMAIN f \ ks |-> f[x]]

WorkerConnection(t) == [last_heartbeat |-> t, registered_models |-> {}]

NoRegister == [pc |-> "idle", model |-> "", type |-> ""]

NoRequest == [pc |-> "none", model |-> "", type |-> "", route |-> "none",
              post |-> "none", delivered |-> FALSE, responses |-> 0,
              ends |-> 0, invoked |-> 0, ran |-> "none", thrown |-> "none"]

MgrCall(op, worker, model, success, stage, had_mapping, had_local, dead, models) ==
    [op |-> op, worker |-> worker, model |-> model, success |-> success,
     stage |-> stage, had_mapping |-> had_mapping, had_local |-> had_local,
     dead |-> dead, models |-> models]

NoCall == MgrCall("new", "", "", FALSE, "", FALSE, FALSE, {}, {})

RouterCall(op, type, model, ret, val) ==
    [op |-> op, type |-> type, model |-> model, ret |-> ret, val |-> val]

NumHandlers == 3

HandlerIds == 1..NumHandlers

MaxConcurrency == 2

\* ServerOptions::wait_timeout (5 s) in clock ticks of the admission model
WaitTimeout == 2

\* Server as constructed: no slot taken
Server(mc, key) ==
    [current_concurrency_ |-> 0, max_concurrency |-> mc, api_key |-> key]

\* an HTTP worker thread that is not running a handler
NoHandler ==
    [pc |-> "none", deadline |-> 0, status |-> 0, guard |-> FALSE,
     acquired |-> 0, released |-> 0, provider |-> FALSE,
     dispatched |-> FALSE, model |-> "", body |-> <<>>,
     streaming |-> FALSE]

\* a ClusterServer on which run() has not been called: the fields of the
\* object, where run() and the master thread are, and who holds port P
\* (frontend) and port P + 1000 (control)
NotStarted ==
    [pc |-> "idle", master |-> "none", mode_ |-> "STANDALONE",
     running_ |-> FALSE, ret |-> "none", probed |-> FALSE, acked |-> FALSE,
     port_p |-> "free", port_c |-> "free"]

\* no request has been forwarded to a worker
NoRelay == [pc |-> "idle", chunks |-> <<>>, response |-> <<>>, is_error |-> FALSE]

\* a WorkerClient after construction; ever_bound and early_register are
\* history: the local endpoint has been bound, a REGISTER_MODEL was sent
\* while it was not
NoAgent ==
    [pc |-> "idle", connected_ |-> FALSE, should_stop_ |-> FALSE,
     actual_listen_port_ |-> 0, process |-> "none", heartbeat |-> "none",
     registered_models_ |-> {}, ever_bound |-> FALSE,
     early_register |-> FALSE]

\* no request has been posted to the master's control endpoint
NoWire == [endpoint |-> "", frame |-> <<>>, status |-> 0]

\* no forward_request has been called: no caller holds a request id and
\* pending_requests_ holds no context
NoForwards == [ids |-> [c \in {} |-> 0], context |-> [i \in {} |-> 0]]

\* no master thread is inside a locked region
NoThreads == [t \in {} |-> <<>>]

\* the worker's side at rest
NoWorkerSide ==
    /\ relay = NoRelay
    /\ agent = NoAgent
    /\ wire = NoWire
    /\ forwards = NoForwards
    /\ threads = NoThreads

\* the frontend has not been called
NoFrontend ==
    /\ rlast = RouterCall("new", "", "", FALSE, <<>>)
    /\ server = Server(1, FALSE)
    /\ handlers = [h \in HandlerIds |-> NoHandler]
    /\ boot = NotStarted
    /\ NoWorkerSide

\* a router without models
EmptyRouter == [t \in ModelTypes |-> [m \in Models |-> "none"]]

\* no cluster: the provider and the stream are studied on their own
NoCluster ==
    /\ workers = EmptyMap
    /\ model_to_worker = EmptyMap
    /\ pending_requests = {}
    /\ router = EmptyRouter
    /\ reg = [w \in WorkerIds |-> NoRegister]
    /\ req = NoRequest
    /\ mlast = NoCall

InitProvider ==
    /\ \E T \in Timeouts : provider = QueueProvider(T, 0)
    /\ now = 0
    /\ pc_prod = "idle"
    /\ pc_ctl = "idle"
    /\ cons = Idle
    /\ last = Call("new", TRUE, <<>>)
    /\ pushed = <<>>
    /\ received = <<>>
    /\ end_called = FALSE
    /\ last_push = 0
    /\ expired_seen = FALSE
    /\ idle_at_call = FALSE
    /\ stream = NoStream
    /\ NoCluster
    /\ NoFrontend

Tick ==
    /\ now < MaxTime
    /\ now' = now + 1
    /\ UNCHANGED <<provider, pc_prod, pc_ctl, cons, last, pushed, received,
                   end_called, last_push, expired_seen, idle_at_call>>
    /\ UNCHANGED <<svars, cvars, fvars>>

\* producer: provider.push(chunk), up to the unlock
Push ==
    /\ pc_prod = "idle"
    /\ Len(pushed) < MaxPush
    /\ LET r == push(provider, TextDelta(Len(pushed) + 1), now) IN
       /\ provider' = r.p
       /\ last' = Call("push", r.ret, <<>>)
       /\ pushed' = IF r.ret THEN Append(pushed, TextDelta(Len(pushed) + 1))
                    ELSE pushed
       /\ last_push' = IF r.ret THEN now ELSE last_push
       /\ pc_prod' = IF r.ret THEN "notify_one" ELSE "idle"
    /\ UNCHANGED <<now, pc_ctl, cons, received, end_called, expired_seen,
                   idle_at_call>>
    /\ UNCHANGED <<svars, cvars, fvars>>

\* a push without cv_.notify_one()
PushNotify_Lost ==
    /\ pc_prod = "notify_one"
    /\ pc_prod' = "idle"
    /\ UNCHANGED <<provider, now, pc_ctl, cons, last, pushed, received,
                   end_called, last_push, expired_seen, idle_at_call>>
    /\ UNCHANGED <<svars, cvars, fvars>>

\* cv_.notify_one() after push: a consumer blocked in the wait is woken
PushNotify ==
    /\ pc_prod = "notify_one"
    /\ pc_prod' = "idle"
    /\ cons' = IF cons.pc \in {"wait_pop_blocked", "wait_pop_for_blocked"}
               THEN [cons EXCEPT !.pc = IF cons.pc = "wait_pop_blocked"
                                        THEN "wait_pop_woken"
                                        ELSE "wait_pop_for_woken"]
               ELSE cons
    /\ UNCHANGED <<provider, now, pc_ctl, last, pushed, received, end_called,
                   last_push, expired_seen, idle_at_call>>
    /\ UNCHANGED <<svars, cvars, fvars>>

End ==
    /\ pc_ctl = "idle"
    /\ provider' = end(provider)
    /\ last' = Call("end", TRUE, <<>>)
    /\ end_called' = TRUE
    /\ pc_ctl' = "notify_all"
    /\ UNCHANGED <<now, pc_prod, cons, pushed, received, last_push,
                   expired_seen, idle_at_call>>
    /\ UNCHANGED <<svars, cvars, fvars>>

Disconnect ==
    /\ pc_ctl = "idle"
    /\ provider' = disconnect(provider)
    /\ last' = Call("disconnect", TRUE, <<>>)
    /\ end_called' = TRUE
    /\ pc_ctl' = "notify_all"
    /\ UNCHANGED <<now, pc_prod, cons, pushed, received, last_push,
                   expired_seen, idle_at_call>>
    /\ UNCHANGED <<svars, cvars, fvars>>

\* cv_.notify_all() after end / disconnect
CtlNotify ==
    /\ pc_ctl = "notify_all"
    /\ pc_ctl' = "idle"
    /\ cons' = IF cons.pc \in {"wait_pop_blocked", "wait_pop_for_blocked"}
               THEN [cons EXCEPT !.pc = IF cons.pc = "wait_pop_blocked"
                                        THEN "wait_pop_woken"
                                        ELSE "wait_pop_for_woken"]
               ELSE cons
    /\ UNCHANGED <<provider, now, pc_prod, last, pushed, received, end_called,
                   last_push, expired_seen, idle_at_call>>
    /\ UNCHANGED <<svars, cvars, fvars>>

IsEnded ==
    /\ pc_ctl = "idle"
    /\ LET r == is_ended(provider, now) IN
       /\ provider' = r.p
       /\ last' = Call("is_ended", r.ret, <<>>)
    /\ expired_seen' = (expired_seen
                        \/ now - provider.last_activity_ > provider.timeout_)
    /\ idle_at_call' = (now - last_push > provider.timeout_)
    /\ UNCHANGED <<now, pc_prod, pc_ctl, cons, pushed, received, end_called,
                   last_push>>
    /\ UNCHANGED <<svars, cvars, fvars>>

IsWritable ==
    /\ pc_ctl = "idle"
    /\ last' = Call("is_writable", is_writable(provider, now), <<>>)
    /\ UNCHANGED <<provider, now, pc_prod, pc_ctl, cons, pushed, received,
                   end_called, last_push, expired_seen, idle_at_call>>
    /\ UNCHANGED <<svars, cvars, fvars>>

IsAlive ==
    /\ pc_ctl = "idle"
    /\ last' = Call("is_alive", is_alive(provider, now), <<>>)
    /\ UNCHANGED <<provider, now, pc_prod, pc_ctl, cons, pushed, received,
                   end_called, last_push, expired_seen, idle_at_call>>
    /\ UNCHANGED <<svars, cvars, fvars>>

ResetTimeout ==
    /\ pc_ctl = "idle"
    /\ provider' = reset_timeout(provider, now)
    /\ last' = Call("reset_timeout", TRUE, <<>>)
    /\ UNCHANGED <<now, pc_prod, pc_ctl, cons, pushed, received, end_called,
                   last_push, expired_seen, idle_at_call>>
    /\ UNCHANGED <<svars, cvars, fvars>>

SetTimeout ==
    /\ pc_ctl = "idle"
    /\ \E T \in Timeouts : provider' = set_timeout(provider, T)
    /\ last' = Call("set_timeout", TRUE, <<>>)
    /\ UNCHANGED <<now, pc_prod, pc_ctl, cons, pushed, received, end_called,
                   last_push, expired_seen, idle_at_call>>
    /\ UNCHANGED <<svars, cvars, fvars>>

\* consumer: the value returned by a read is appended to received
Return(op, r) ==
    /\ provider' = r.p
    /\ last' = Call(op, r.ret # <<>>, r.ret)
    /\ received' = received \o r.ret
    /\ cons' = Idle

Pop ==
    /\ cons.pc = "idle"
    /\ Return("pop", pop(provider, now))
    /\ UNCHANGED <<now, pc_prod, pc_ctl, pushed, end_called, last_push,
                   expired_seen, idle_at_call>>
    /\ UNCHANGED <<svars, cvars, fvars>>

\* wait_pop(): lock, evaluate the predicate; return at once or block
WaitPop ==
    /\ cons.pc = "idle"
    /\ LET w == wait_predicate(provider, now) IN
       IF w.ret
       THEN Return("wait_pop", wait_pop_tail(w.p, now))
       ELSE /\ provider' = w.p
            /\ cons' = [pc |-> "wait_pop_blocked", deadline |-> 0]
            /\ UNCHANGED <<last, received>>
    /\ UNCHANGED <<now, pc_prod, pc_ctl, pushed, end_called, last_push,
                   expired_seen, idle_at_call>>
    /\ UNCHANGED <<svars, cvars, fvars>>

\* a woken wait_pop re-acquires the mutex and evaluates the predicate again
WaitPopWake ==
    /\ cons.pc = "wait_pop_woken"
    /\ LET w == wait_predicate(provider, now) IN
       IF w.ret
       THEN Return("wait_pop", wait_pop_tail(w.p, now))
       ELSE /\ provider' = w.p
            /\ cons' = [cons EXCEPT !.pc = "wait_pop_blocked"]
            /\ UNCHANGED <<last, received>>
    /\ UNCHANGED <<now, pc_prod, pc_ctl, pushed, end_called, last_push,
                   expired_seen, idle_at_call>>
    /\ UNCHANGED <<svars, cvars, fvars>>

\* wait_pop_for(d): as wait_pop, with a deadline now + d
WaitPopFor ==
    /\ cons.pc = "idle"
    /\ \E d \in 1..MaxWait :
       LET w == wait_predicate(provider, now) IN
       IF w.ret
       THEN Return("wait_pop_for", wait_pop_tail(w.p, now))
       ELSE /\ provider' = w.p
            /\ cons' = [pc |-> "wait_pop_for_blocked", deadline |-> now + d]
            /\ UNCHANGED <<last, received>>
    /\ UNCHANGED <<now, pc_prod, pc_ctl, pushed, end_called, last_push,
                   expired_seen, idle_at_call>>
    /\ UNCHANGED <<svars, cvars, fvars>>

WaitPopForWake ==
    /\ cons.pc = "wait_pop_for_woken"
    /\ cons.deadline > now
    /\ LET w == wait_predicate(provider, now) IN
       IF w.ret
       THEN Return("wait_pop_for", wait_pop_tail(w.p, now))
       ELSE /\ provider' = w.p
            /\ cons' = [cons EXCEPT !.pc = "wait_pop_for_blocked"]
            /\ UNCHANGED <<last, received>>
    /\ UNCHANGED <<now, pc_prod, pc_ctl, pushed, end_called, last_push,
                   expired_seen, idle_at_call>>
    /\ UNCHANGED <<svars, cvars, fvars>>

\* the deadline of wait_for passes: the predicate is evaluated a last time;
\* false gives "return std::nullopt" (line 264), true the common tail
WaitPopForTimeout ==
    /\ cons.pc \in {"wait_pop_for_blocked", "wait_pop_for_woken"}
    /\ cons.deadline <= now
    /\ LET w == wait_predicate(provider, now) IN
       IF w.ret
       THEN Return("wait_pop_for", wait_pop_tail(w.p, now))
       ELSE Return("wait_pop_for", [p |-> w.p, ret |-> <<>>])
    /\ UNCHANGED <<now, pc_prod, pc_ctl, pushed, end_called, last_push,
                   expired_seen, idle_at_call>>
    /\ UNCHANGED <<svars, cvars, fvars>>

\* condition variables may wake without a notify
SpuriousWake ==
    /\ cons.pc \in {"wait_pop_blocked", "wait_pop_for_blocked"}
    /\ cons' = [cons EXCEPT !.pc = IF cons.pc = "wait_pop_blocked"
                                   THEN "wait_pop_woken"
                                   ELSE "wait_pop_for_woken"]
    /\ UNCHANGED <<provider, now, pc_prod, pc_ctl, last, pushed, received,
                   end_called, last_push, expired_seen, idle_at_call>>
    /\ UNCHANGED <<svars, cvars, fvars>>

NextProvider ==
    \/ Tick
    \/ Push
    \/ PushNotify
    \/ End
    \/ Disconnect
    \/ CtlNotify
    \/ IsEnded
    \/ IsWritable
    \/ IsAlive
    \/ ResetTimeout
    \/ SetTimeout
    \/ Pop
    \/ WaitPop
    \/ WaitPopWake
    \/ WaitPopFor
    \/ WaitPopForWake
    \/ WaitPopForTimeout
    \/ SpuriousWake

SpecProvider == InitProvider /\ [][NextProvider]_vars

\* the clock advances, a notify that is due is delivered and a woken or
\* timed-out waiter runs; pushes, end(), disconnect() and spurious wakes
\* are not bound to happen
SpecProviderFair ==
    /\ SpecProvider
    /\ WF_vars(Tick)
    /\ WF_vars(PushNotify)
    /\ WF_vars(CtlNotify)
    /\ WF_vars(WaitPopWake)
    /\ WF_vars(WaitPopForWake)
    /\ WF_vars(WaitPopForTimeout)

\* a provider whose timeout stays the one it was constructed with: every
\* operation of the provider but set_timeout
NextFixedTimeout ==
    \/ Tick
    \/ Push
    \/ PushNotify
    \/ End
    \/ Disconnect
    \/ CtlNotify
    \/ IsEnded
    \/ IsWritable
    \/ IsAlive
    \/ ResetTimeout
    \/ Pop
    \/ WaitPop
    \/ WaitPopWake
    \/ WaitPopFor
    \/ WaitPopForWake
    \/ WaitPopForTimeout
    \/ SpuriousWake

SpecFixedTimeout == InitProvider /\ [][NextFixedTimeout]_vars

\* the calls that change the queue or the lifecycle state, and the reads:
\* a producer pushing, a controlling thread calling end() / disconnect(),
\* and the consumer in pop, wait_pop and wait_pop_for
NextWakeup ==
    \/ Tick
    \/ Push
    \/ PushNotify
    \/ End
    \/ Disconnect
    \/ CtlNotify
    \/ Pop
    \/ WaitPop
    \/ WaitPopWake
    \/ WaitPopFor
    \/ WaitPopForWake
    \/ WaitPopForTimeout
    \/ SpuriousWake

SpecWakeup == InitProvider /\ [][NextWakeup]_vars

\* the clock advances, a notify that is due is delivered and a woken or
\* timed-out waiter runs
SpecWakeupFair ==
    /\ SpecWakeup
    /\ WF_vars(Tick)
    /\ WF_vars(PushNotify)
    /\ WF_vars(CtlNotify)
    /\ WF_vars(WaitPopWake)
    /\ WF_vars(WaitPopForWake)
    /\ WF_vars(WaitPopForTimeout)

\* ------------------------------------------------------------------------
\* Streamed chat response (Server::handleChatCompletions, stream = true).
\* The model callback runs on its own thread and pushes into the request's
\* provider; the HTTP library calls the chunked content provider (the
\* lambda holding StreamState) for as long as it returns true.  One clock
\* tick is the 10 ms the lambda waits in wait_pop_for.
\* ------------------------------------------------------------------------
WaitTicks == 1

DoneMarker == [line |-> "data: [DONE]", type |-> "End", id |-> 0]

\* ChatCompletionsSSEEncoder::encode: the lines it produces for a chunk
encode(chunk) ==
    CASE chunk.type \in {"TextDelta", "FinalText", "Error"}
             -> <<[line |-> "data: json", type |-> chunk.type, id |-> chunk.id]>>
      [] chunk.type = "End" -> <<DoneMarker>>
      [] OTHER -> <<>>

InitStream ==
    /\ \E T \in Timeouts :
         /\ provider = QueueProvider(T, 0)
         /\ stream = [done |-> FALSE, start |-> 0, timeout |-> T,
                      written |-> <<>>, sink_closed |-> FALSE,
                      active |-> TRUE, client_open |-> TRUE,
                      closed_midstream |-> FALSE, released |-> FALSE]
    /\ now = 0
    /\ pc_prod = "idle"
    /\ pc_ctl = "idle"
    /\ cons = Idle
    /\ last = Call("new", TRUE, <<>>)
    /\ pushed = <<>>
    /\ received = <<>>
    /\ end_called = FALSE
    /\ last_push = 0
    /\ expired_seen = FALSE
    /\ idle_at_call = FALSE
    /\ NoCluster
    /\ NoFrontend

\* the kinds of chunk the model callback pushes: one that the SSE encoder
\* turns into a data line, the final text, one it encodes to nothing, and
\* the explicit end marker
CallbackChunkTypes == {"TextDelta", "FinalText", "Embeddings", "End"}

\* the model callback pushes a chunk
CallbackPush ==
    /\ pc_prod = "idle"
    /\ Len(pushed) < MaxPush
    /\ \E k \in CallbackChunkTypes :
       LET chunk == [type |-> k, id |-> Len(pushed) + 1]
           r == push(provider, chunk, now) IN
       /\ provider' = r.p
       /\ pushed' = IF r.ret THEN Append(pushed, chunk) ELSE pushed
       /\ pc_prod' = IF r.ret THEN "notify_one" ELSE "idle"
    /\ UNCHANGED <<now, pc_ctl, cons, received, hvars, stream>>
    /\ UNCHANGED <<cvars, fvars>>

\* the model callback calls provider->end()
CallbackEnd ==
    /\ pc_prod = "idle"
    /\ provider' = end(provider)
    /\ pc_prod' = "notify_all"
    /\ UNCHANGED <<now, pc_ctl, cons, pushed, received, hvars, stream>>
    /\ UNCHANGED <<cvars, fvars>>

\* cv_.notify_one() / cv_.notify_all() of the callback thread
CallbackNotify ==
    /\ pc_prod \in {"notify_one", "notify_all"}
    /\ pc_prod' = "idle"
    /\ cons' = IF cons.pc = "wait_pop_for_blocked"
               THEN [cons EXCEPT !.pc = "wait_pop_for_woken"]
               ELSE cons
    /\ UNCHANGED <<provider, now, pc_ctl, last, pushed, received, end_called,
                   last_push, expired_seen, idle_at_call, stream>>
    /\ UNCHANGED <<cvars, fvars>>

\* a WriteDone that forgets state->done = true
WriteDone_KeepOpen(s) ==
    [s EXCEPT !.written = Append(@, DoneMarker), !.sink_closed = TRUE,
              !.active = FALSE]

\* write "data: [DONE]\n\n", sink.done(), state->done = true, return false
WriteDone(s) ==
    [s EXCEPT !.written = Append(@, DoneMarker), !.sink_closed = TRUE,
              !.done = TRUE, !.active = FALSE]

\* the lambda after wait_pop_for returned r.ret (lines 377-395)
AfterWaitPopFor(r) ==
    /\ provider' = r.p
    /\ received' = received \o r.ret
    /\ cons' = Idle
    /\ stream' = IF r.ret = <<>> THEN stream
                 ELSE IF is_end(r.ret[1]) THEN WriteDone(stream)
                 ELSE [stream EXCEPT !.written = @ \o encode(r.ret[1])]

\* the library calls the lambda (lines 349-376)
StreamInvoke ==
    /\ ~stream.released
    /\ cons.pc = "idle"
    /\ IF stream.done
       THEN /\ stream' = [stream EXCEPT !.sink_closed = TRUE, !.active = FALSE]
            /\ UNCHANGED <<provider, received, cons>>
       ELSE IF stream.timeout - (now - stream.start) <= 0
       THEN /\ stream' = WriteDone(stream)
            /\ UNCHANGED <<provider, received, cons>>
       ELSE LET e == is_ended(provider, now) IN
            IF e.ret
            THEN /\ provider' = e.p
                 /\ stream' = WriteDone(stream)
                 /\ UNCHANGED <<received, cons>>
            ELSE LET w == wait_predicate(e.p, now) IN
                 IF w.ret
                 THEN AfterWaitPopFor(wait_pop_tail(w.p, now))
                 ELSE /\ provider' = w.p
                      /\ cons' = [pc |-> "wait_pop_for_blocked",
                                  deadline |-> now + WaitTicks]
                      /\ UNCHANGED <<received, stream>>
    /\ UNCHANGED <<now, pc_prod, pc_ctl, pushed, hvars>>
    /\ UNCHANGED <<cvars, fvars>>

\* the lambda's wait_pop_for is woken before its deadline
StreamWake ==
    /\ cons.pc = "wait_pop_for_woken"
    /\ cons.deadline > now
    /\ LET w == wait_predicate(provider, now) IN
       IF w.ret
       THEN AfterWaitPopFor(wait_pop_tail(w.p, now))
       ELSE /\ provider' = w.p
            /\ cons' = [cons EXCEPT !.pc = "wait_pop_for_blocked"]
            /\ UNCHANGED <<received, stream>>
    /\ UNCHANGED <<now, pc_prod, pc_ctl, pushed, hvars>>
    /\ UNCHANGED <<cvars, fvars>>

\* the 10 ms of the lambda's wait_pop_for are over
StreamWaitTimeout ==
    /\ cons.pc \in {"wait_pop_for_blocked", "wait_pop_for_woken"}
    /\ cons.deadline <= now
    /\ LET w == wait_predicate(provider, now) IN
       IF w.ret
       THEN AfterWaitPopFor(wait_pop_tail(w.p, now))
       ELSE AfterWaitPopFor([p |-> w.p, ret |-> <<>>])
    /\ UNCHANGED <<now, pc_prod, pc_ctl, pushed, hvars>>
    /\ UNCHANGED <<cvars, fvars>>

\* the client closes the TCP connection
ClientClose ==
    /\ stream.client_open
    /\ ~stream.released
    /\ stream' = [stream EXCEPT !.client_open = FALSE,
                                !.closed_midstream = ~stream.sink_closed]
    /\ UNCHANGED pvars
    /\ UNCHANGED <<cvars, fvars>>

\* the library stops calling the lambda (it returned false, or the
\* connection is gone) and destroys it together with its StreamState
LibraryRelease ==
    /\ ~stream.released
    /\ cons.pc = "idle"
    /\ ~stream.active \/ ~stream.client_open
    /\ stream' = [stream EXCEPT !.active = FALSE, !.released = TRUE]
    /\ UNCHANGED pvars
    /\ UNCHANGED <<cvars, fvars>>

NextStream ==
    \/ Tick
    \/ CallbackPush
    \/ CallbackEnd
    \/ CallbackNotify
    \/ StreamInvoke
    \/ StreamWake
    \/ StreamWaitTimeout
    \/ SpuriousWake
    \/ ClientClose
    \/ LibraryRelease

SpecStream == InitStream /\ [][NextStream]_vars

\* the library calls the lambda again for as long as it may, a blocked
\* wait_pop_for is resumed, and the clock advances
SpecStreamFair ==
    /\ SpecStream
    /\ WF_vars(Tick)
    /\ WF_vars(StreamInvoke)
    /\ WF_vars(StreamWake)
    /\ WF_vars(StreamWaitTimeout)


\* ------------------------------------------------------------------------
\* Master of a cluster: ClusterServer::runAsMaster with its WorkerManager.
\* Every WorkerManager method body runs under mutex_, so it is one step; an
\* HTTP handler that takes the mutex more than once is one step per lock.
\* ------------------------------------------------------------------------

\* a registration that drops the name from the other modalities
registerModel_OneModality(r, t, m, callback) ==
    [u \in ModelTypes |->
        [r[u] EXCEPT ![m] = IF u = t THEN callback ELSE "none"]]

\* ModelRouter::registerChat / registerEmbedding / ...: map[name] = callback
registerModel(r, t, m, callback) == [r EXCEPT ![t][m] = callback]

\* Server::hasModel: the name is known in some modality
hasModel(r, m) == \E t \in ModelTypes : r[t][m] # "none"

\* ModelRouter::listChatModels / listEmbeddingModels / ...
listModels(r, t) == SelectSeq(ModelNames, LAMBDA m : r[t][m] # "none")

RECURSIVE ConcatTypes(_, _)
ConcatTypes(r, i) ==
    IF i > Len(ModelTypeOrder) THEN <<>>
    ELSE listModels(r, ModelTypeOrder[i]) \o ConcatTypes(r, i + 1)

\* std::sort of a vector of model names
RECURSIVE SortFrom(_, _)
SortFrom(names, i) ==
    IF i > Len(ModelNames) THEN <<>>
    ELSE SelectSeq(names, LAMBDA x : x = ModelNames[i]) \o SortFrom(names, i + 1)

\* std::unique followed by erase: adjacent duplicates are dropped
RECURSIVE Unique(_)
Unique(names) ==
    IF Len(names) <= 1 THEN names
    ELSE IF names[1] = names[2] THEN Unique(Tail(names))
    ELSE <<names[1]>> \o Unique(Tail(names))

\* ModelRouter::listAllModels
listAllModels(r) == Unique(SortFrom(ConcatTypes(r, 1), 1))

\* the callback ClusterServer installs for a model a worker registered:
\* a forwarder is registered under the name in the model's modality
on_model_registered(r, m, t) == registerModel(r, t, m, "forward")

\* WorkerManager::has_model
has_model(mtw, m) == m \in DOMAIN mtw

\* a register_model that does not look at model_to_worker_ again
register_model_NoRecheck(ws, mtw, r, worker_id, t, m) ==
    IF worker_id \notin DOMAIN ws
    THEN [ok |-> FALSE, workers |-> ws, model_to_worker |-> mtw, router |-> r]
    ELSE [ok |-> TRUE,
          workers |-> [ws EXCEPT ![worker_id].registered_models = @ \cup {m}],
          model_to_worker |-> MapPut(mtw, m, worker_id),
          router |-> on_model_registered(r, m, t)]

\* WorkerManager::register_model
register_model(ws, mtw, r, worker_id, t, m) ==
    IF m \in DOMAIN mtw
    THEN [ok |-> FALSE, workers |-> ws, model_to_worker |-> mtw, router |-> r]
    ELSE IF worker_id \notin DOMAIN ws
    THEN [ok |-> FALSE, workers |-> ws, model_to_worker |-> mtw, router |-> r]
    ELSE [ok |-> TRUE,
          workers |-> [ws EXCEPT ![worker_id].registered_models = @ \cup {m}],
          model_to_worker |-> MapPut(mtw, m, worker_id),
          router |-> on_model_registered(r, m, t)]

\* WorkerManager::cleanup_dead_workers
cleanup_dead_workers(ws, mtw, t) ==
    LET dead == {w \in DOMAIN ws : t - ws[w].last_heartbeat > PruneAfter}
        models == UNION {ws[w].registered_models : w \in dead}
    IN [workers |-> MapErase(ws, dead),
        model_to_worker |-> MapErase(mtw, models),
        dead |-> dead, models |-> models]

\* the chunks handle_worker_response pushes for a response
ResponseKinds == {"error", "chunks", "text"}

ResponseChunks(kind) ==
    CASE kind = "error" -> <<"Error">>
      [] kind = "chunks" -> <<"TextDelta", "FinalText">>
      [] OTHER -> <<"FinalText">>

RECURSIVE PushAll(_, _, _)
PushAll(p, types, t) ==
    IF types = <<>> THEN p
    ELSE PushAll(push(p, [type |-> Head(types), id |-> Len(p.queue_) + 1], t).p,
                 Tail(types), t)

\* handle_worker_response without the lookup in pending_requests_
handle_worker_response_NoLookup(pend, p, request_id, kind, t) ==
    [pending |-> pend \ {request_id},
     p |-> end(PushAll(p, ResponseChunks(kind), t)),
     ends |-> 1]

\* WorkerManager::handle_worker_response
handle_worker_response(pend, p, request_id, kind, t) ==
    IF request_id \notin pend
    THEN [pending |-> pend, p |-> p, ends |-> 0]
    ELSE [pending |-> pend \ {request_id},
          p |-> end(PushAll(p, ResponseChunks(kind), t)),
          ends |-> 1]

\* the master starts with the model "shared" registered locally for chat
InitCluster ==
    /\ provider = QueueProvider(DefaultTimeout, 0)
    /\ now = 0
    /\ pc_prod = "idle"
    /\ pc_ctl = "idle"
    /\ cons = Idle
    /\ last = Call("new", TRUE, <<>>)
    /\ pushed = <<>>
    /\ received = <<>>
    /\ end_called = FALSE
    /\ last_push = 0
    /\ expired_seen = FALSE
    /\ idle_at_call = FALSE
    /\ stream = NoStream
    /\ workers = EmptyMap
    /\ model_to_worker = EmptyMap
    /\ pending_requests = {}
    /\ router = registerModel(EmptyRouter, "chat", "shared", "local")
    /\ reg = [w \in WorkerIds |-> NoRegister]
    /\ req = NoRequest
    /\ mlast = NoCall
    /\ NoFrontend

\* POST /internal/handshake: register_worker replaces the connection
HandleHandshake(w) ==
    /\ workers' = MapPut(workers, w, WorkerConnection(now))
    /\ UNCHANGED <<model_to_worker, pending_requests, router, reg, req, mlast>>
    /\ UNCHANGED <<provider, now, qvars>>

\* POST /internal/register up to the has_model check (lines 379-431)
HandleRegister(w, m, t) ==
    /\ reg[w].pc = "idle"
    /\ IF has_model(model_to_worker, m)
       THEN /\ mlast' = MgrCall("register_ack", w, m, FALSE, "has_model",
                                TRUE,
                                \E u \in ModelTypes : router[u][m] = "local",
                                {}, {})
            /\ UNCHANGED reg
       ELSE /\ reg' = [reg EXCEPT ![w] = [pc |-> "checked", model |-> m,
                                          type |-> t]]
            /\ UNCHANGED mlast
    /\ UNCHANGED <<workers, model_to_worker, pending_requests, router, req>>
    /\ UNCHANGED <<provider, now, qvars>>

\* POST /internal/register from register_model to the REGISTER_ACK
\* (lines 433-439)
HandleRegisterAck(w) ==
    /\ reg[w].pc = "checked"
    /\ LET m == reg[w].model
           r == register_model(workers, model_to_worker, router, w,
                               reg[w].type, m) IN
       /\ workers' = r.workers
       /\ model_to_worker' = r.model_to_worker
       /\ router' = r.router
       /\ mlast' = MgrCall("register_ack", w, m, r.ok, "register_model",
                           has_model(model_to_worker, m),
                           \E u \in ModelTypes : router[u][m] = "local",
                           {}, {})
    /\ reg' = [reg EXCEPT ![w] = NoRegister]
    /\ UNCHANGED <<pending_requests, req>>
    /\ UNCHANGED <<provider, now, qvars>>

\* POST /internal/heartbeat (for an unknown worker id it changes nothing)
HandleHeartbeat(w) ==
    /\ w \in DOMAIN workers
    /\ workers' = [workers EXCEPT ![w].last_heartbeat = now]
    /\ UNCHANGED <<model_to_worker, pending_requests, router, reg, req, mlast>>
    /\ UNCHANGED <<provider, now, qvars>>

\* WorkerClient::disconnect: the worker posts DISCONNECT to
\* /internal/disconnect and stops.  WorkerManager::start registers no such
\* route, so the master's HTTP server answers 404 and no manager code runs.
WorkerDisconnect(w) ==
    /\ w \in DOMAIN workers
    /\ mlast' = MgrCall("disconnect", w, "", FALSE, "", FALSE, FALSE, {w},
                        workers[w].registered_models)
    /\ UNCHANGED <<workers, model_to_worker, pending_requests, router, reg, req>>
    /\ UNCHANGED <<provider, now, qvars>>

\* heartbeat_loop: every 5 s the sweeper runs cleanup_dead_workers
CleanupDeadWorkers ==
    /\ LET r == cleanup_dead_workers(workers, model_to_worker, now) IN
       /\ workers' = r.workers
       /\ model_to_worker' = r.model_to_worker
       /\ mlast' = IF r.dead = {} THEN mlast
                   ELSE MgrCall("sweep", "", "", TRUE, "", FALSE, FALSE,
                                r.dead, r.models)
    /\ UNCHANGED <<pending_requests, router, reg, req>>
    /\ UNCHANGED <<provider, now, qvars>>

\* the frontend looks the model of a chat request up and routes it: unknown
\* name, or the registered callback started on its own thread
Dispatch(t, m) ==
    /\ req.pc = "none"
    /\ req' = [req EXCEPT !.model = m, !.type = t, !.route = router[t][m],
                          !.pc = CASE router[t][m] = "local" -> "local"
                                   [] router[t][m] = "forward" -> "routed"
                                   [] OTHER -> "not_available"]
    /\ UNCHANGED <<workers, model_to_worker, pending_requests, router, reg,
                   mlast>>
    /\ UNCHANGED <<provider, now, qvars>>

\* the master's local model callback answers and ends the provider
LocalCallback ==
    /\ req.pc = "local"
    /\ provider' = end(PushAll(provider, <<"FinalText">>, now))
    /\ req' = [req EXCEPT !.pc = "served"]
    /\ UNCHANGED <<workers, model_to_worker, pending_requests, router, reg,
                   mlast>>
    /\ UNCHANGED <<now, qvars>>

\* the forwarder calls WorkerManager::forward_request (its result is
\* dropped by the forwarder)
ForwardRequest ==
    /\ req.pc = "routed"
    /\ IF ~has_model(model_to_worker, req.model)
       THEN /\ req' = [req EXCEPT !.pc = "returned_false"]
            /\ UNCHANGED <<provider, pending_requests>>
       ELSE IF model_to_worker[req.model] \notin DOMAIN workers
       THEN /\ provider' = PushAll(provider, <<"Error">>, now)
            /\ req' = [req EXCEPT !.pc = "worker_not_found"]
            /\ UNCHANGED pending_requests
       ELSE /\ pending_requests' = pending_requests \cup {RequestId}
            /\ req' = [req EXCEPT !.pc = "pending", !.post = "inflight"]
            /\ UNCHANGED provider
    /\ UNCHANGED <<workers, model_to_worker, router, reg, mlast>>
    /\ UNCHANGED <<now, qvars>>

\* the POST to the worker's /internal/forward is answered with 200
PostAccepted ==
    /\ req.post = "inflight"
    /\ req' = [req EXCEPT !.post = "ok", !.delivered = TRUE]
    /\ UNCHANGED <<workers, model_to_worker, pending_requests, router, reg,
                   mlast>>
    /\ UNCHANGED <<provider, now, qvars>>

\* the POST fails (no result or a status other than 200), whether or not
\* the worker has received it: handle_worker_response with forward_failed
PostFailed ==
    /\ req.post = "inflight"
    /\ \E got \in BOOLEAN :
       LET r == handle_worker_response(pending_requests, provider, RequestId,
                                       "error", now) IN
       /\ pending_requests' = r.pending
       /\ provider' = r.p
       /\ req' = [req EXCEPT !.post = "failed", !.delivered = got,
                             !.ends = @ + r.ends,
                             !.pc = IF r.ends > 0 THEN "completed" ELSE @]
    /\ UNCHANGED <<workers, model_to_worker, router, reg, mlast>>
    /\ UNCHANGED <<now, qvars>>

\* POST /internal/response: the worker that received the request reports
HandleResponse ==
    /\ req.delivered
    /\ req.responses < MaxResponses
    /\ \E kind \in ResponseKinds :
       LET r == handle_worker_response(pending_requests, provider, RequestId,
                                       kind, now) IN
       /\ pending_requests' = r.pending
       /\ provider' = r.p
       /\ req' = [req EXCEPT !.responses = @ + 1, !.ends = @ + r.ends,
                             !.pc = IF r.ends > 0 THEN "completed" ELSE @]
    /\ UNCHANGED <<workers, model_to_worker, router, reg, mlast>>
    /\ UNCHANGED <<now, qvars>>

\* registration, heartbeats and the sweeper with two workers, and where
\* the router sends a chat request
NextCluster ==
    \/ Tick
    \/ \E w \in WorkerIds : HandleHandshake(w)
    \/ \E w \in WorkerIds, m \in Models, t \in ModelTypes : HandleRegister(w, m, t)
    \/ \E w \in WorkerIds : HandleRegisterAck(w)
    \/ \E w \in WorkerIds : HandleHeartbeat(w)
    \/ CleanupDeadWorkers
    \/ \E m \in Models : Dispatch("chat", m)

SpecCluster == InitCluster /\ [][NextCluster]_vars

\* one worker with the chat model "m1", and a chat request served by the
\* local callback or forwarded
NextForward ==
    \/ Tick
    \/ HandleHandshake("w1")
    \/ HandleRegister("w1", "m1", "chat")
    \/ HandleRegisterAck("w1")
    \/ HandleHeartbeat("w1")
    \/ WorkerDisconnect("w1")
    \/ CleanupDeadWorkers
    \/ \E m \in Models : Dispatch("chat", m)
    \/ LocalCallback
    \/ ForwardRequest
    \/ PostAccepted
    \/ PostFailed
    \/ HandleResponse

SpecForward == InitCluster /\ [][NextForward]_vars

\* the clock advances, the sweeper keeps running and the POST to the worker
\* is answered or fails (connection timeout 5 s, read timeout 300 s); the
\* worker is free never to post a response
SpecForwardFair ==
    /\ SpecForward
    /\ WF_vars(Tick)
    /\ WF_vars(CleanupDeadWorkers)
    /\ WF_vars(LocalCallback)
    /\ WF_vars(ForwardRequest)
    /\ WF_vars(PostAccepted \/ PostFailed)

\* ------------------------------------------------------------------------
\* A forwarded request on the worker and its way back: the worker's model
\* callback pushes chunks on the worker's provider and ends it, the drain
\* thread of WorkerClient::handle_forward_request turns them into one
\* FORWARD_RESPONSE, and WorkerManager::handle_worker_response turns that
\* into chunks on the consumer's provider on the master.
\* ------------------------------------------------------------------------

MaxChunks == 3

\* OutputChunk with the fields the drain thread reads; finish_reason "" is
\* an obj without the key
OutputChunk(type, text, embeds, bytes, finish_reason) ==
    [type |-> type, text |-> text, embeds |-> embeds, bytes |-> bytes,
     finish_reason |-> finish_reason]

\* what a model callback pushes: text deltas, a final text (possibly empty,
\* possibly with finish_reason "stop"), a batch of embeddings, audio or
\* image bytes, an error
WorkerChunks ==
    {OutputChunk("TextDelta", "a", <<>>, <<>>, ""),
     OutputChunk("FinalText", "a", <<>>, <<>>, ""),
     OutputChunk("FinalText", "a", <<>>, <<>>, "stop"),
     OutputChunk("FinalText", "", <<>>, <<>>, ""),
     OutputChunk("Embeddings", "", <<1>>, <<>>, ""),
     OutputChunk("AudioBytes", "", <<>>, <<98>>, ""),
     OutputChunk("Error", "", <<>>, <<>>, "")}

\* base64_encode of the byte strings in use
base64_encode(bytes) == IF bytes = <<98>> THEN "Yg==" ELSE ""

\* nlohmann::json objects are functions from keys; json::value(key, default)
json_value(j, key, default) == IF key \in DOMAIN j THEN j[key] ELSE default

\* the drain thread's chunk_json for one chunk (lines 520-531)
chunk_json(chunk) ==
    IF chunk.text # ""
    THEN LET j == ("text" :> chunk.text)
                      @@ ("is_delta" :> (chunk.type = "TextDelta")) IN
         IF chunk.finish_reason # ""
         THEN j @@ ("finish_reason" :> chunk.finish_reason)
         ELSE j
    ELSE IF chunk.embeds # <<>>
    THEN ("embeddings" :> chunk.embeds)
    ELSE IF chunk.bytes # <<>>
    THEN ("bytes_b64" :> base64_encode(chunk.bytes))
             @@ ("mime_type" :> "audio/mp3")
    ELSE EmptyMap

\* the drain loop over the chunks the callback pushed before end(), and
\* the response it sends (lines 500-545)
RECURSIVE drain(_, _)
drain(chunks, acc) ==
    IF chunks = <<>> \/ is_end(Head(chunks))
    THEN [response |-> IF Len(acc) = 1 THEN acc[1] ELSE ("chunks" :> acc),
          is_error |-> FALSE]
    ELSE IF is_error(Head(chunks))
    THEN [response |-> ("error_code" :> "model_error")
                           @@ ("error_message" :> "failed"),
          is_error |-> TRUE]
    ELSE IF Head(chunks).finish_reason = "stop"
    THEN drain(<<>>, Append(acc, chunk_json(Head(chunks))))
    ELSE drain(Tail(chunks), Append(acc, chunk_json(Head(chunks))))

\* the chunk handle_worker_response builds from one element of "chunks"
\* (lines 251-258)
chunk_of(chunk_data) ==
    OutputChunk(IF json_value(chunk_data, "is_delta", TRUE)
                THEN "TextDelta" ELSE "FinalText",
                json_value(chunk_data, "text", ""), <<>>, <<>>,
                json_value(chunk_data, "finish_reason", ""))

\* the chunks handle_worker_response pushes for a response (lines 243-269)
response_chunks(response, failed) ==
    IF failed
    THEN <<OutputChunk("Error", "", <<>>, <<>>, "")>>
    ELSE IF "chunks" \in DOMAIN response
    THEN [i \in 1..Len(response["chunks"]) |-> chunk_of(response["chunks"][i])]
    ELSE <<OutputChunk("FinalText", json_value(response, "text", ""),
                       <<>>, <<>>, "")>>

RECURSIVE PushEach(_, _, _)
PushEach(p, chunks, t) ==
    IF chunks = <<>> THEN p
    ELSE PushEach(push(p, Head(chunks), t).p, Tail(chunks), t)

\* WorkerManager::handle_worker_response for a decoded FORWARD_RESPONSE
deliver_response(pend, p, request_id, response, failed, t) ==
    IF request_id \notin pend
    THEN [pending |-> pend, p |-> p]
    ELSE [pending |-> pend \ {request_id},
          p |-> end(PushEach(p, response_chunks(response, failed), t))]

\* worker w1 serves chat model m1; the master has forwarded a request, the
\* worker has answered the POST with 200 and started the model callback
InitRelay ==
    /\ provider = QueueProvider(DefaultTimeout, 0)
    /\ now = 0
    /\ pc_prod = "idle"
    /\ pc_ctl = "idle"
    /\ cons = Idle
    /\ last = Call("new", TRUE, <<>>)
    /\ pushed = <<>>
    /\ received = <<>>
    /\ end_called = FALSE
    /\ last_push = 0
    /\ expired_seen = FALSE
    /\ idle_at_call = FALSE
    /\ stream = NoStream
    /\ workers = MapPut(EmptyMap, "w1",
                        [WorkerConnection(0) EXCEPT !.registered_models = {"m1"}])
    /\ model_to_worker = MapPut(EmptyMap, "m1", "w1")
    /\ pending_requests = {RequestId}
    /\ router = registerModel(EmptyRouter, "chat", "m1", "forward")
    /\ reg = [w \in WorkerIds |-> NoRegister]
    /\ req = [NoRequest EXCEPT !.model = "m1", !.type = "chat",
                               !.route = "forward", !.pc = "pending",
                               !.post = "ok", !.delivered = TRUE]
    /\ mlast = NoCall
    /\ rlast = RouterCall("new", "", "", FALSE, <<>>)
    /\ server = Server(1, FALSE)
    /\ handlers = [h \in HandlerIds |-> NoHandler]
    /\ boot = NotStarted
    /\ relay = [NoRelay EXCEPT !.pc = "callback"]
    /\ agent = [NoAgent EXCEPT !.connected_ = TRUE, !.pc = "connected",
                               !.actual_listen_port_ = 1,
                               !.process = "serving",
                               !.heartbeat = "running",
                               !.registered_models_ = {"m1"},
                               !.ever_bound = TRUE]
    /\ wire = NoWire
    /\ forwards = NoForwards
    /\ threads = NoThreads

\* frame of a step of the relay
RelayFrame == UNCHANGED <<now, pc_prod, pc_ctl, cons, pushed, received, hvars, svars, rlast, server, handlers, boot, agent, wire, forwards, threads>>

\* the worker's model callback pushes a chunk on the worker's provider
WorkerCallbackPush(chunk) ==
    /\ relay.pc = "callback"
    /\ Len(relay.chunks) < MaxChunks
    /\ relay' = [relay EXCEPT !.chunks = Append(@, chunk)]
    /\ UNCHANGED <<provider, cvars>>
    /\ RelayFrame

\* the callback ends the worker's provider
WorkerCallbackEnd ==
    /\ relay.pc = "callback"
    /\ relay' = [relay EXCEPT !.pc = "ended"]
    /\ UNCHANGED <<provider, cvars>>
    /\ RelayFrame

\* the drain thread has popped everything and posts the FORWARD_RESPONSE
WorkerDrain ==
    /\ relay.pc = "ended"
    /\ LET d == drain(relay.chunks, <<>>) IN
       relay' = [relay EXCEPT !.pc = "sent", !.response = d.response,
                              !.is_error = d.is_error]
    /\ UNCHANGED <<provider, cvars>>
    /\ RelayFrame

\* POST /internal/response on the master: handle_worker_response
MasterDeliver ==
    /\ relay.pc = "sent"
    /\ LET r == deliver_response(pending_requests, provider, RequestId,
                                 relay.response, relay.is_error, now) IN
       /\ pending_requests' = r.pending
       /\ provider' = r.p
    /\ req' = [req EXCEPT !.pc = "completed", !.responses = 1, !.ends = 1]
    /\ relay' = [relay EXCEPT !.pc = "delivered"]
    /\ UNCHANGED <<workers, model_to_worker, router, reg, mlast>>
    /\ RelayFrame

NextRelay ==
    \/ \E chunk \in WorkerChunks : WorkerCallbackPush(chunk)
    \/ WorkerCallbackEnd
    \/ WorkerDrain
    \/ MasterDeliver

SpecRelay == InitRelay /\ [][NextRelay]_vars

\* ------------------------------------------------------------------------
\* WorkerClient of worker w1 against the master's WorkerManager: connect
\* (HANDSHAKE, then the process thread binds the local endpoint),
\* register_model, the heartbeat thread and disconnect; on the master the
\* sweeper prunes a worker whose heartbeat is older than 30 s.
\* ------------------------------------------------------------------------

\* frame of a step of the worker agent
AgentFrame == UNCHANGED <<pvars, svars, pending_requests, reg, req, mlast, rlast, server, handlers, boot, relay, wire, forwards, threads>>

\* WorkerClient::connect up to the HANDSHAKE_ACK (lines 194-229): the POST
\* reaches the master or not, and the ack reaches the worker or not
AgentHandshake(reached, acked) ==
    /\ agent.pc = "idle"
    /\ ~agent.connected_
    /\ acked => reached
    /\ workers' = IF reached THEN MapPut(workers, "w1", WorkerConnection(now))
                  ELSE workers
    /\ agent' = IF acked
                THEN [agent EXCEPT !.pc = "waiting", !.connected_ = TRUE,
                                   !.should_stop_ = FALSE,
                                   !.actual_listen_port_ = 0,
                                   !.process = "started"]
                ELSE agent
    /\ UNCHANGED <<model_to_worker, router>>
    /\ AgentFrame

\* WorkerClient::process_loop: bind the local endpoint (lines 393-416)
ProcessBind(bound) ==
    /\ agent.process = "started"
    /\ agent' = IF bound
                THEN [agent EXCEPT !.process = "serving",
                                   !.actual_listen_port_ = 1,
                                   !.ever_bound = TRUE]
                ELSE [agent EXCEPT !.process = "exited",
                                   !.actual_listen_port_ = -1,
                                   !.should_stop_ = TRUE]
    /\ UNCHANGED <<workers, model_to_worker, router>>
    /\ AgentFrame

\* WorkerClient::connect after the wait for the local endpoint (lines
\* 238-257)
ConnectReturn ==
    /\ agent.pc = "waiting"
    /\ agent.actual_listen_port_ # 0 \/ agent.should_stop_
    /\ agent' = IF agent.actual_listen_port_ <= 0 \/ agent.should_stop_
                THEN [agent EXCEPT !.pc = "idle", !.should_stop_ = TRUE,
                                   !.connected_ = FALSE, !.process = "none"]
                ELSE [agent EXCEPT !.pc = "connected",
                                   !.heartbeat = "running"]
    /\ UNCHANGED <<workers, model_to_worker, router>>
    /\ AgentFrame

\* WorkerClient::register_model and the master's handle_register
AgentRegisterModel(m) ==
    /\ agent.connected_
    /\ m \notin agent.registered_models_
    /\ LET r == register_model(workers, model_to_worker, router, "w1",
                               "chat", m) IN
       /\ workers' = r.workers
       /\ model_to_worker' = r.model_to_worker
       /\ router' = r.router
       /\ agent' = [agent EXCEPT
                      !.registered_models_ = IF r.ok THEN @ \cup {m} ELSE @,
                      !.early_register = @ \/ agent.actual_listen_port_ <= 0]
    /\ AgentFrame

\* WorkerClient::heartbeat_loop: one round, the POST answered 200 or not;
\* handle_heartbeat refreshes a known worker and acks any
AgentHeartbeat(ok) ==
    /\ agent.heartbeat = "running"
    /\ agent.connected_ /\ ~agent.should_stop_
    /\ workers' = IF ok /\ "w1" \in DOMAIN workers
                  THEN [workers EXCEPT !["w1"].last_heartbeat = now]
                  ELSE workers
    /\ agent' = IF ok THEN agent
                ELSE [agent EXCEPT !.connected_ = FALSE,
                                   !.heartbeat = "exited"]
    /\ UNCHANGED <<model_to_worker, router>>
    /\ AgentFrame

\* WorkerClient::disconnect: the DISCONNECT post is answered 404 by the
\* master, the threads are joined
AgentDisconnect ==
    /\ agent.pc = "connected"
    /\ agent' = [agent EXCEPT !.pc = "idle", !.should_stop_ = TRUE,
                              !.connected_ = FALSE, !.process = "none",
                              !.heartbeat = "none",
                              !.actual_listen_port_ = 0]
    /\ UNCHANGED <<workers, model_to_worker, router>>
    /\ AgentFrame

NextAgent ==
    \/ Tick
    \/ \E reached, acked \in BOOLEAN : AgentHandshake(reached, acked)
    \/ \E bound \in BOOLEAN : ProcessBind(bound)
    \/ ConnectReturn
    \/ AgentRegisterModel("m1")
    \/ \E ok \in BOOLEAN : AgentHeartbeat(ok)
    \/ AgentDisconnect
    \/ CleanupDeadWorkers

SpecAgent == InitCluster /\ [][NextAgent]_vars

\* the clock advances, the sweeper runs every 5 s, the connect call goes on
\* and the heartbeat thread keeps posting heartbeats that are answered
SpecAgentFair ==
    /\ SpecAgent
    /\ WF_vars(Tick)
    /\ WF_vars(CleanupDeadWorkers)
    /\ WF_vars(\E bound \in BOOLEAN : ProcessBind(bound))
    /\ WF_vars(ConnectReturn)
    /\ WF_vars(AgentHeartbeat(TRUE))

\* ------------------------------------------------------------------------
\* The master's control endpoint: POST /internal/handshake, /register,
\* /heartbeat and /response with any body, well-formed or not.
\* ------------------------------------------------------------------------

CLUSTER_MAGIC == "OAIC"

PROTOCOL_VERSION == 1

Frame(size, magic, version, type, payload_length, payload, worker_id, model_name) ==
    [size |-> size, magic |-> magic, version |-> version, type |-> type,
     payload_length |-> payload_length, payload |-> payload,
     worker_id |-> worker_id, model_name |-> model_name]

\* the bodies posted: one shorter than the 16-byte header; full ones with
\* a wrong magic or version; with a valid header and bytes json::parse
\* rejects; and with a valid header and an object, the header announcing
\* the payload (payload_length > 0) or not
Frames ==
    {Frame("short", CLUSTER_MAGIC, PROTOCOL_VERSION, "HANDSHAKE", 0,
           "garbage", "", "")}
    \cup {Frame("full", mv[1], mv[2], "REGISTER_MODEL", 1, "object", "w1",
                "shared") :
              mv \in {<<"HTTP", PROTOCOL_VERSION>>,
                      <<CLUSTER_MAGIC, PROTOCOL_VERSION + 1>>,
                      <<"HTTP", PROTOCOL_VERSION + 1>>}}
    \cup {Frame("full", CLUSTER_MAGIC, PROTOCOL_VERSION, ty, n, "garbage",
                "", "") :
              ty \in {"HANDSHAKE", "REGISTER_MODEL"}, n \in {0, 1}}
    \cup {Frame("full", CLUSTER_MAGIC, PROTOCOL_VERSION, ty, n, "object",
                w, m) :
              ty \in {"HANDSHAKE", "REGISTER_MODEL"}, n \in {0, 1},
              w \in {"", "w1"}, m \in {"", "shared"}}

Endpoints == {"handshake", "register", "heartbeat", "response"}

\* MessageHeader::is_valid
is_valid(header) ==
    header.magic = CLUSTER_MAGIC /\ header.version = PROTOCOL_VERSION

\* req.body.size() < sizeof(MessageHeader)
too_short(frame) == frame.size = "short"

\* nlohmann::json::parse(req.body.substr(sizeof(MessageHeader))) throws
parse_fails(frame) == frame.payload = "garbage"

\* the manager's state a handler works on, and its answer
Answer(status, ws, mtw, r, pend, p) ==
    [status |-> status, workers |-> ws, model_to_worker |-> mtw,
     router |-> r, pending |-> pend, p |-> p]

\* WorkerManager::handle_handshake.  The payload is parsed only when the
\* header announces one; otherwise payload.value() is called on a null
\* json, which throws, and the HTTP library answers 500.
handle_handshake(frame, ws, mtw, r, pend, p, t) ==
    IF too_short(frame) \/ ~is_valid(frame)
    THEN Answer(400, ws, mtw, r, pend, p)
    ELSE IF frame.payload_length > 0 /\ parse_fails(frame)
    THEN Answer(400, ws, mtw, r, pend, p)
    ELSE IF frame.payload_length = 0
    THEN Answer(500, ws, mtw, r, pend, p)
    ELSE IF frame.worker_id = ""
    THEN Answer(400, ws, mtw, r, pend, p)
    ELSE Answer(200, MapPut(ws, frame.worker_id, WorkerConnection(t)), mtw,
                r, pend, p)

\* WorkerManager::handle_register
handle_register(frame, ws, mtw, r, pend, p, t) ==
    IF too_short(frame) \/ ~is_valid(frame) \/ frame.type # "REGISTER_MODEL"
    THEN Answer(400, ws, mtw, r, pend, p)
    ELSE IF parse_fails(frame)
    THEN Answer(400, ws, mtw, r, pend, p)
    ELSE IF frame.worker_id = "" \/ frame.model_name = ""
    THEN Answer(400, ws, mtw, r, pend, p)
    ELSE IF has_model(mtw, frame.model_name)
    THEN Answer(200, ws, mtw, r, pend, p)
    ELSE LET g == register_model(ws, mtw, r, frame.worker_id, "chat",
                                 frame.model_name) IN
         Answer(200, g.workers, g.model_to_worker, g.router, pend, p)

\* WorkerManager::handle_heartbeat
handle_heartbeat(frame, ws, mtw, r, pend, p, t) ==
    IF too_short(frame) \/ ~is_valid(frame) \/ parse_fails(frame)
    THEN Answer(400, ws, mtw, r, pend, p)
    ELSE Answer(200,
                IF frame.worker_id \in DOMAIN ws
                THEN [ws EXCEPT ![frame.worker_id].last_heartbeat = t]
                ELSE ws,
                mtw, r, pend, p)

\* WorkerManager::handle_response, the response a final text
handle_response(frame, ws, mtw, r, pend, p, t) ==
    IF too_short(frame) \/ ~is_valid(frame) \/ parse_fails(frame)
    THEN Answer(400, ws, mtw, r, pend, p)
    ELSE LET g == handle_worker_response(pend, p, RequestId, "text", t) IN
         Answer(200, ws, mtw, r, g.pending, g.p)

\* the handler WorkerManager::start registers for the endpoint
handle(endpoint, frame, ws, mtw, r, pend, p, t) ==
    CASE endpoint = "handshake" -> handle_handshake(frame, ws, mtw, r, pend, p, t)
      [] endpoint = "register" -> handle_register(frame, ws, mtw, r, pend, p, t)
      [] endpoint = "heartbeat" -> handle_heartbeat(frame, ws, mtw, r, pend, p, t)
      [] OTHER -> handle_response(frame, ws, mtw, r, pend, p, t)

\* a POST to the control endpoint
PostInternal(endpoint, frame) ==
    /\ LET a == handle(endpoint, frame, workers, model_to_worker, router,
                       pending_requests, provider, now) IN
       /\ workers' = a.workers
       /\ model_to_worker' = a.model_to_worker
       /\ router' = a.router
       /\ pending_requests' = a.pending
       /\ provider' = a.p
       /\ wire' = [endpoint |-> endpoint, frame |-> frame, status |-> a.status]
    /\ UNCHANGED <<now, pc_prod, pc_ctl, cons, pushed, received, hvars, svars>>
    /\ UNCHANGED <<reg, req, mlast, rlast, server, handlers, boot, relay, agent, forwards, threads>>

\* the clock between the posts
FrameTick ==
    /\ now < MaxTime
    /\ now' = now + 1
    /\ UNCHANGED <<provider, pc_prod, pc_ctl, cons, pushed, received, hvars, svars>>
    /\ UNCHANGED <<cvars, fvars>>

NextFrames ==
    \/ FrameTick
    \/ \E endpoint \in Endpoints, frame \in Frames : PostInternal(endpoint, frame)

SpecFrames == InitRelay /\ [][NextFrames]_vars

\* ------------------------------------------------------------------------
\* Correlation ids.  Several frontend threads call forward_request for a
\* model of worker w1; each call takes its request id from the clock,
\* stores its context under it and waits for the response that names it.
\* ------------------------------------------------------------------------

MaxForwards == 2

\* the frontend threads that forward requests
Callers == 1..MaxForwards

\* "req_" followed by the reading of the steady clock in hex
generate_request_id(t) == <<"req_", t>>

InitIds ==
    /\ provider = QueueProvider(DefaultTimeout, 0)
    /\ now = 0
    /\ pc_prod = "idle"
    /\ pc_ctl = "idle"
    /\ cons = Idle
    /\ last = Call("new", TRUE, <<>>)
    /\ pushed = <<>>
    /\ received = <<>>
    /\ end_called = FALSE
    /\ last_push = 0
    /\ expired_seen = FALSE
    /\ idle_at_call = FALSE
    /\ stream = NoStream
    /\ workers = MapPut(EmptyMap, "w1",
                        [WorkerConnection(0) EXCEPT !.registered_models = {"m1"}])
    /\ model_to_worker = MapPut(EmptyMap, "m1", "w1")
    /\ pending_requests = {}
    /\ router = registerModel(EmptyRouter, "chat", "m1", "forward")
    /\ reg = [w \in WorkerIds |-> NoRegister]
    /\ req = NoRequest
    /\ mlast = NoCall
    /\ NoFrontend

\* frame of a step of a forwarding thread
IdsFrame == UNCHANGED <<pvars, svars, workers, model_to_worker, router, reg, req, mlast, rlast, server, handlers, boot, relay, agent, wire, threads>>

\* forward_request(model, ...) on thread c: the mapping and the worker are
\* found, the id is generated and pending_requests_[id] = context
ForwardCall(c, model) ==
    /\ c \notin DOMAIN forwards.ids
    /\ has_model(model_to_worker, model)
    /\ model_to_worker[model] \in DOMAIN workers
    /\ LET request_id == generate_request_id(now) IN
       /\ pending_requests' = pending_requests \cup {request_id}
       /\ forwards' = [ids |-> MapPut(forwards.ids, c, request_id),
                       context |-> MapPut(forwards.context, request_id, c)]
    /\ IdsFrame

\* handle_worker_response(request_id, ...): the context stored under the id
\* is erased and its provider is fed and ended; an unknown id is dropped
ForwardResponse(request_id) ==
    /\ request_id \in pending_requests
    /\ pending_requests' = pending_requests \ {request_id}
    /\ forwards' = [ids |-> MapErase(forwards.ids, {forwards.context[request_id]}),
                    context |-> MapErase(forwards.context, {request_id})]
    /\ IdsFrame

NextIds ==
    \/ Tick
    \/ \E c \in Callers : ForwardCall(c, "m1")
    \/ \E t \in 0..MaxTime : ForwardResponse(generate_request_id(t))

SpecIds == InitIds /\ [][NextIds]_vars

\* ------------------------------------------------------------------------
\* Locks of the master.  WorkerManager::mutex_ and ClusterServer's
\* models_mutex_ are std::mutex, ModelRouter::mutex_ is a std::shared_mutex
\* and every provider has a std::mutex of its own.  A thread of the master
\* (an HTTP thread of the frontend or of the control endpoint, a detached
\* callback thread, the sweeper, the application thread) runs one operation
\* at a time; an operation is the sequence of lock and unlock calls of its
\* code.  A thread that asks for a lock it cannot have waits.
\* ------------------------------------------------------------------------

MaxThreads == 3

MasterThreads == 1..MaxThreads

Lock(m) == [op |-> "lock", m |-> m]

LockShared(m) == [op |-> "lock_shared", m |-> m]

Unlock(m) == [op |-> "unlock", m |-> m]

\* std::lock_guard in a scope that calls nothing that locks
Scoped(m) == <<Lock(m), Unlock(m)>>

\* ModelRouter::registerChat and its siblings: unique_lock for one assignment
registerChat_locks == Scoped("router")

\* Server::unregisterModel: the five unregister calls of the router in turn
unregisterModel_locks ==
    Scoped("router") \o Scoped("router") \o Scoped("router") \o
    Scoped("router") \o Scoped("router")

\* WorkerManager::register_worker, under handle_handshake
register_worker_locks == Scoped("manager")

\* handle_register: the address update, has_model, then register_model,
\* which calls on_model_registered_ with mutex_ held
handle_register_locks ==
    Scoped("manager") \o Scoped("manager") \o
    <<Lock("manager")>> \o registerChat_locks \o <<Unlock("manager")>>

\* unregister_worker for a worker with one model: on_model_unregistered_
\* is called with mutex_ held
unregister_worker_locks ==
    <<Lock("manager")>> \o unregisterModel_locks \o <<Unlock("manager")>>

\* handle_heartbeat and cleanup_dead_workers: mutex_ for the whole body
handle_heartbeat_locks == Scoped("manager")

cleanup_dead_workers_locks == Scoped("manager")

\* handle_worker_response: the context is taken out under mutex_, then the
\* provider is fed (push) and ended (end) outside it
handle_worker_response_locks ==
    Scoped("manager") \o Scoped("provider") \o Scoped("provider")

\* forward_request: the lookup and the insert into pending_requests_, each
\* in a scope of its own
forward_request_locks == Scoped("manager") \o Scoped("manager")

\* forward_request for a mapping whose worker is gone: the error chunk is
\* pushed inside the first scope
forward_request_not_found_locks ==
    <<Lock("manager")>> \o Scoped("provider") \o <<Unlock("manager")>>

\* a routeChat that runs the forwarding callback itself, inside the shared
\* lock
routeChat_Inline ==
    <<LockShared("router")>> \o forward_request_locks \o <<Unlock("router")>>

\* ModelRouter::routeChat: shared_lock for the lookup; the callback is
\* handed to a detached thread, which holds no lock of the caller
routeChat_locks == <<LockShared("router"), Unlock("router")>>

\* a frontend handler: the route, then the wait on the provider
handleChatCompletions_locks == routeChat_locks \o Scoped("provider")

\* ClusterServer::registerChat on a running master, and
\* registerLocalModelsToServer: the router is written with models_mutex_ held
ClusterServer_registerChat_locks ==
    <<Lock("models")>> \o registerChat_locks \o <<Unlock("models")>>

\* the operations a thread of the master can run
MasterOps ==
    [handle_handshake |-> register_worker_locks,
     handle_register |-> handle_register_locks,
     unregister_worker |-> unregister_worker_locks,
     handle_heartbeat |-> handle_heartbeat_locks,
     cleanup_dead_workers |-> cleanup_dead_workers_locks,
     handle_response |-> handle_worker_response_locks,
     forward_callback |-> forward_request_locks,
     forward_not_found |-> forward_request_not_found_locks,
     handleChatCompletions |-> handleChatCompletions_locks,
     registerChat |-> ClusterServer_registerChat_locks]

IdleThread == [op |-> "idle", rest |-> <<>>, held |-> {}]

\* thread t may take lock m in the mode asked for: a std::mutex and a
\* unique_lock need m free of every holder, the thread itself included; a
\* shared_lock needs it free of unique holders
may_lock(th, i) ==
    IF i.op = "lock"
    THEN \A u \in DOMAIN th : \A h \in th[u].held : h.m # i.m
    ELSE \A u \in DOMAIN th : [m |-> i.m, mode |-> "unique"] \notin th[u].held

InitLocks ==
    /\ provider = QueueProvider(DefaultTimeout, 0)
    /\ now = 0
    /\ pc_prod = "idle"
    /\ pc_ctl = "idle"
    /\ cons = Idle
    /\ last = Call("new", TRUE, <<>>)
    /\ pushed = <<>>
    /\ received = <<>>
    /\ end_called = FALSE
    /\ last_push = 0
    /\ expired_seen = FALSE
    /\ idle_at_call = FALSE
    /\ stream = NoStream
    /\ workers = EmptyMap
    /\ model_to_worker = EmptyMap
    /\ pending_requests = {}
    /\ router = EmptyRouter
    /\ reg = [w \in WorkerIds |-> NoRegister]
    /\ req = NoRequest
    /\ mlast = NoCall
    /\ rlast = RouterCall("new", "", "", FALSE, <<>>)
    /\ server = Server(1, FALSE)
    /\ handlers = [h \in HandlerIds |-> NoHandler]
    /\ boot = NotStarted
    /\ relay = NoRelay
    /\ agent = NoAgent
    /\ wire = NoWire
    /\ forwards = NoForwards
    /\ threads = [t \in MasterThreads |-> IdleThread]

LocksFrame == UNCHANGED <<pvars, svars, cvars, rlast, server, handlers, boot, relay, agent, wire, forwards>>

\* an idle thread is given an operation
StartOp(t, name) ==
    /\ threads[t].op = "idle"
    /\ threads' = [threads EXCEPT ![t] = [op |-> name, rest |-> MasterOps[name],
                                          held |-> {}]]
    /\ LocksFrame

\* the thread takes the lock it asks for, if it may
Acquire(t) ==
    /\ threads[t].rest # <<>>
    /\ LET i == Head(threads[t].rest) IN
       /\ i.op \in {"lock", "lock_shared"}
       /\ may_lock(threads, i)
       /\ threads' = [threads EXCEPT
              ![t].rest = Tail(@),
              ![t].held = @ \cup {[m |-> i.m,
                                   mode |-> IF i.op = "lock" THEN "unique"
                                            ELSE "shared"]}]
    /\ LocksFrame

\* the thread leaves a locked scope; after the last one the operation is over
Release(t) ==
    /\ threads[t].rest # <<>>
    /\ LET i == Head(threads[t].rest) IN
       /\ i.op = "unlock"
       /\ threads' = [threads EXCEPT ![t] =
              IF Tail(threads[t].rest) = <<>> THEN IdleThread
              ELSE [@ EXCEPT !.rest = Tail(@),
                             !.held = {h \in @ : h.m # i.m}]]
    /\ LocksFrame

NextLocks ==
    \/ \E t \in MasterThreads, name \in DOMAIN MasterOps : StartOp(t, name)
    \/ \E t \in MasterThreads : Acquire(t)
    \/ \E t \in MasterThreads : Release(t)

SpecLocks == InitLocks /\ [][NextLocks]_vars

\* ------------------------------------------------------------------------
\* ClusterServer::run(port) with enable_cluster: tryStartMaster probes port
\* P, starts runAsMaster on a detached thread and polls running_ and mode_;
\* failing that, the control port P + 1000 is probed with a handshake and
\* the process connects as a worker, or gives up.  Other processes may bind
\* a free port at any time.
\* ------------------------------------------------------------------------

\* P is free or held by another process; P + 1000 is free, held by an
\* unrelated service or by the control endpoint of a running master
InitBoot ==
    /\ provider = QueueProvider(DefaultTimeout, 0)
    /\ now = 0
    /\ pc_prod = "idle"
    /\ pc_ctl = "idle"
    /\ cons = Idle
    /\ last = Call("new", TRUE, <<>>)
    /\ pushed = <<>>
    /\ received = <<>>
    /\ end_called = FALSE
    /\ last_push = 0
    /\ expired_seen = FALSE
    /\ idle_at_call = FALSE
    /\ stream = NoStream
    /\ NoCluster
    /\ rlast = RouterCall("new", "", "", FALSE, <<>>)
    /\ server = Server(1, FALSE)
    /\ handlers = [h \in HandlerIds |-> NoHandler]
    /\ \E p \in {"free", "other"}, c \in {"free", "other", "cluster"} :
          boot = [NotStarted EXCEPT !.pc = "run", !.port_p = p, !.port_c = c]
    /\ NoWorkerSide

BootFrame == UNCHANGED <<pvars, svars, cvars, rlast, server, handlers, wvars>>

\* another process binds port P
TakePortP ==
    /\ boot.port_p = "free"
    /\ boot' = [boot EXCEPT !.port_p = "other"]
    /\ BootFrame

\* another process binds port P + 1000: some service, or a master's control
\* endpoint
TakePortC ==
    /\ boot.port_c = "free"
    /\ \E c \in {"other", "cluster"} : boot' = [boot EXCEPT !.port_c = c]
    /\ BootFrame

\* the process holding a port lets go of it
ReleasePort ==
    /\ \/ boot.port_p = "other" /\ boot' = [boot EXCEPT !.port_p = "free"]
       \/ boot.port_c \in {"other", "cluster"}
            /\ boot' = [boot EXCEPT !.port_c = "free"]
    /\ BootFrame

\* tryStartMaster: socket, bind(P), close; then the master thread is
\* started, or false is returned and run() goes on to the probe
ProbePort ==
    /\ boot.pc = "run"
    /\ boot' = IF boot.port_p = "free"
               THEN [boot EXCEPT !.pc = "polling", !.probed = TRUE,
                                 !.master = "started"]
               ELSE [boot EXCEPT !.pc = "detect"]
    /\ BootFrame

\* runAsMaster: mode_ = MASTER, the Server is created and configured
MasterConfigure ==
    /\ boot.master = "started"
    /\ boot' = [boot EXCEPT !.master = "configured", !.mode_ = "MASTER"]
    /\ BootFrame

\* runAsMaster: worker_manager_->start(P + 1000) binds the control port,
\* or runAsMaster returns false
MasterStartManager ==
    /\ boot.master = "configured"
    /\ boot' = IF boot.port_c = "free"
               THEN [boot EXCEPT !.master = "manager_started",
                                 !.port_c = "self"]
               ELSE [boot EXCEPT !.master = "failed"]
    /\ BootFrame

\* runAsMaster: running_ = true, before server_->run(port)
MasterSetRunning ==
    /\ boot.master = "manager_started"
    /\ boot' = [boot EXCEPT !.master = "set_running", !.running_ = TRUE]
    /\ BootFrame

\* runAsMaster: server_->run(port) binds P and listens, or listen() fails
\* and its result is dropped
MasterListen ==
    /\ boot.master = "set_running"
    /\ boot' = IF boot.port_p = "free"
               THEN [boot EXCEPT !.master = "listening", !.port_p = "self"]
               ELSE [boot EXCEPT !.master = "listen_failed"]
    /\ BootFrame

\* tryStartMaster's poll sees running_ && mode_ == MASTER: run() returns
PollSeesMaster ==
    /\ boot.pc = "polling"
    /\ boot.running_ /\ boot.mode_ = "MASTER"
    /\ boot' = [boot EXCEPT !.pc = "returned", !.ret = "MASTER"]
    /\ BootFrame

\* the 50 polls are over after runAsMaster has failed
PollGivesUp ==
    /\ boot.pc = "polling"
    /\ boot.master = "failed"
    /\ boot' = [boot EXCEPT !.pc = "detect"]
    /\ BootFrame

\* detectClusterService("127.0.0.1", P + 1000): a HANDSHAKE is answered by
\* a valid HANDSHAKE_ACK only by a master's control endpoint
DetectClusterService ==
    /\ boot.pc = "detect"
    /\ boot' = IF boot.port_c = "cluster"
               THEN [boot EXCEPT !.pc = "start_worker", !.acked = TRUE]
               ELSE [boot EXCEPT !.pc = "failing"]
    /\ BootFrame

\* tryStartWorker / runAsWorker: mode_ = WORKER, connect to the master; on
\* success the worker runs, else run() goes on to fail
StartWorker ==
    /\ boot.pc = "start_worker"
    /\ boot' = IF boot.port_c = "cluster"
               THEN [boot EXCEPT !.pc = "worker", !.mode_ = "WORKER",
                                 !.running_ = TRUE]
               ELSE [boot EXCEPT !.pc = "failing", !.mode_ = "WORKER"]
    /\ BootFrame

\* the worker's connection ends, runAsWorker returns true and run() WORKER
WorkerReturns ==
    /\ boot.pc = "worker"
    /\ boot' = [boot EXCEPT !.pc = "returned", !.ret = "WORKER"]
    /\ BootFrame

\* run() gives up: running_ = false, mode_ = STANDALONE
RunFails ==
    /\ boot.pc = "failing"
    /\ boot' = [boot EXCEPT !.pc = "returned", !.ret = "STANDALONE",
                            !.running_ = FALSE, !.mode_ = "STANDALONE"]
    /\ BootFrame

NextBoot ==
    \/ TakePortP
    \/ TakePortC
    \/ ReleasePort
    \/ ProbePort
    \/ MasterConfigure
    \/ MasterStartManager
    \/ MasterSetRunning
    \/ MasterListen
    \/ PollSeesMaster
    \/ PollGivesUp
    \/ DetectClusterService
    \/ StartWorker
    \/ WorkerReturns
    \/ RunFails

SpecBoot == InitBoot /\ [][NextBoot]_vars


\* ------------------------------------------------------------------------
\* The model registry as the application and the frontend use it:
\* Server::register*, Server::unregisterModel, ModelRouter::unregister*,
\* ModelRouter::route*, Server::hasModel and the list calls.  Every
\* ModelRouter method runs under its mutex_, so each call is one step.
\* ------------------------------------------------------------------------

\* ModelRouter::unregisterChat / unregisterEmbedding / ...
unregisterOne(r, t, m) == [r EXCEPT ![t][m] = "none"]

\* Server::unregisterModel: the name is erased in every modality
RECURSIVE unregisterFrom(_, _, _)
unregisterFrom(r, m, i) ==
    IF i > Len(ModelTypeOrder) THEN r
    ELSE unregisterFrom(unregisterOne(r, ModelTypeOrder[i], m), m, i + 1)

unregisterModel(r, m) == unregisterFrom(r, m, 1)

\* ModelRouter::routeChat / routeEmbedding / ...: the result
route(r, t, m) == r[t][m] # "none"

InitRouter ==
    /\ provider = QueueProvider(DefaultTimeout, 0)
    /\ now = 0
    /\ pc_prod = "idle"
    /\ pc_ctl = "idle"
    /\ cons = Idle
    /\ last = Call("new", TRUE, <<>>)
    /\ pushed = <<>>
    /\ received = <<>>
    /\ end_called = FALSE
    /\ last_push = 0
    /\ expired_seen = FALSE
    /\ idle_at_call = FALSE
    /\ stream = NoStream
    /\ NoCluster
    /\ NoFrontend

\* Server::registerChat / registerEmbedding / ... with a local callback, or
\* with the forwarder the master installs for a worker's model
RegisterModel(t, m, callback) ==
    /\ router' = registerModel(router, t, m, callback)
    /\ rlast' = RouterCall("register", t, m, TRUE, <<>>)
    /\ UNCHANGED <<pvars, svars, workers, model_to_worker, pending_requests,
                   reg, req, mlast>>
    /\ UNCHANGED <<server, handlers, boot, wvars>>

UnregisterOne(t, m) ==
    /\ router' = unregisterOne(router, t, m)
    /\ rlast' = RouterCall("unregister", t, m, TRUE, <<>>)
    /\ UNCHANGED <<pvars, svars, workers, model_to_worker, pending_requests,
                   reg, req, mlast>>
    /\ UNCHANGED <<server, handlers, boot, wvars>>

UnregisterModel(m) ==
    /\ router' = unregisterModel(router, m)
    /\ rlast' = RouterCall("unregisterModel", "", m, TRUE, <<>>)
    /\ UNCHANGED <<pvars, svars, workers, model_to_worker, pending_requests,
                   reg, req, mlast>>
    /\ UNCHANGED <<server, handlers, boot, wvars>>

Route(t, m) ==
    /\ rlast' = RouterCall("route", t, m, route(router, t, m), <<>>)
    /\ UNCHANGED <<pvars, svars, cvars>>
    /\ UNCHANGED <<server, handlers, boot, wvars>>

HasModel(m) ==
    /\ rlast' = RouterCall("hasModel", "", m, hasModel(router, m), <<>>)
    /\ UNCHANGED <<pvars, svars, cvars>>
    /\ UNCHANGED <<server, handlers, boot, wvars>>

ListModels(t) ==
    /\ rlast' = RouterCall("list", t, "", TRUE, listModels(router, t))
    /\ UNCHANGED <<pvars, svars, cvars>>
    /\ UNCHANGED <<server, handlers, boot, wvars>>

ListAllModels ==
    /\ rlast' = RouterCall("listAll", "", "", TRUE, listAllModels(router))
    /\ UNCHANGED <<pvars, svars, cvars>>
    /\ UNCHANGED <<server, handlers, boot, wvars>>

NextRouter ==
    \/ \E t \in ModelTypes, m \in Models, c \in {"local", "forward"} :
           RegisterModel(t, m, c)
    \/ \E t \in ModelTypes, m \in Models : UnregisterOne(t, m)
    \/ \E m \in Models : UnregisterModel(m)
    \/ \E t \in ModelTypes, m \in Models : Route(t, m)
    \/ \E m \in Models : HasModel(m)
    \/ \E t \in ModelTypes : ListModels(t)
    \/ ListAllModels

SpecRouter == InitRouter /\ [][NextRouter]_vars

\* ------------------------------------------------------------------------
\* ModelRouter::route*: the lookup under the shared lock and the detached
\* thread that runs the callback inside try / catch (const std::exception&).
\* req is the request being routed and its callback thread.
\* ------------------------------------------------------------------------

\* a route that runs the callback on the calling thread before it returns
route_thread_Inline(r, t, m) ==
    [NoRequest EXCEPT !.pc = "callback_running", !.type = t, !.model = m,
                      !.route = r[t][m], !.invoked = 1, !.ran = r[t][m]]

\* std::thread([callback = it->second, req, provider] {...}).detach()
route_thread(r, t, m) ==
    [NoRequest EXCEPT !.pc = "thread_started", !.type = t, !.model = m,
                      !.route = r[t][m]]

\* what a step of the callback thread leaves alone
ThreadFrame ==
    /\ UNCHANGED <<now, pc_prod, pc_ctl, cons, pushed, received, hvars, svars>>
    /\ UNCHANGED <<workers, model_to_worker, pending_requests, router, reg,
                   mlast, fvars>>

\* routeChat / routeEmbedding / ...: false for an unknown name, else the
\* thread is started and true is returned
RouteDispatch(t, m) ==
    /\ req.pc = "none"
    /\ rlast' = RouterCall("route", t, m, route(router, t, m), <<>>)
    /\ req' = IF route(router, t, m) THEN route_thread(router, t, m) ELSE req
    /\ UNCHANGED <<pvars, svars, workers, model_to_worker, pending_requests,
                   router, reg, mlast, server, handlers, boot, wvars>>

\* the thread calls the captured callback
CallbackInvoke ==
    /\ req.pc = "thread_started"
    /\ req' = [req EXCEPT !.pc = "callback_running", !.invoked = @ + 1,
                          !.ran = req.route]
    /\ UNCHANGED provider
    /\ ThreadFrame

\* the callback pushes an event
CallbackWrite ==
    /\ req.pc = "callback_running"
    /\ Len(provider.queue_) < MaxPush
    /\ \E k \in {"TextDelta", "End"} :
       provider' = push(provider, [type |-> k, id |-> Len(provider.queue_) + 1],
                        now).p
    /\ UNCHANGED req
    /\ ThreadFrame

\* the callback calls provider->end()
CallbackEndProvider ==
    /\ req.pc = "callback_running"
    /\ ~provider.ended_
    /\ provider' = end(provider)
    /\ UNCHANGED req
    /\ ThreadFrame

\* the callback returns
CallbackReturn ==
    /\ req.pc = "callback_running"
    /\ req' = [req EXCEPT !.pc = "done"]
    /\ UNCHANGED provider
    /\ ThreadFrame

\* the callback throws: a std::exception reaches the catch clause, anything
\* else leaves the thread function and std::terminate ends the process
CallbackThrow ==
    /\ req.pc = "callback_running"
    /\ \E e \in {"std_exception", "other"} :
       req' = [req EXCEPT !.thrown = e,
                          !.pc = IF e = "std_exception" THEN "caught"
                                 ELSE "terminated"]
    /\ UNCHANGED provider
    /\ ThreadFrame

\* catch: provider->push(OutputChunk::Error("model_error", e.what()))
CatchPush ==
    /\ req.pc = "caught"
    /\ provider' = push(provider, [type |-> "Error",
                                   id |-> Len(provider.queue_) + 1], now).p
    /\ req' = [req EXCEPT !.pc = "catch_end"]
    /\ ThreadFrame

\* catch: provider->end()
CatchEnd ==
    /\ req.pc = "catch_end"
    /\ provider' = end(provider)
    /\ req' = [req EXCEPT !.pc = "done"]
    /\ ThreadFrame

\* the thread is gone; the next request comes with a provider of its own
NextRequest ==
    /\ req.pc = "done"
    /\ req' = NoRequest
    /\ provider' = QueueProvider(DefaultTimeout, now)
    /\ ThreadFrame

NextDispatch ==
    \/ \E t \in ModelTypes, m \in Models, c \in {"local", "forward"} :
           RegisterModel(t, m, c)
    \/ \E t \in ModelTypes, m \in Models : UnregisterOne(t, m)
    \/ \E t \in ModelTypes, m \in Models : RouteDispatch(t, m)
    \/ CallbackInvoke
    \/ CallbackWrite
    \/ CallbackEndProvider
    \/ CallbackReturn
    \/ CallbackThrow
    \/ CatchPush
    \/ CatchEnd
    \/ NextRequest

SpecDispatch == InitRouter /\ [][NextDispatch]_vars


\* ------------------------------------------------------------------------
\* Admission of POST requests (Server::acquireSlot / releaseSlot and the
\* SlotGuard of every POST handler).  Each HTTP worker thread runs one
\* handler at a time.  What the request carries (credentials, body, model,
\* stream flag) and what the model callback answers are inputs, chosen at
\* the step that reads them.  One clock tick is 2.5 s here.
\* ------------------------------------------------------------------------

\* a predicate that admits one handler too many
slot_available_OffByOne(srv) ==
    srv.current_concurrency_ <= srv.max_concurrency

\* the predicate of slot_cv_.wait_for
slot_available(srv) == srv.current_concurrency_ < srv.max_concurrency

\* acquireSlot once wait_for has returned the value of the predicate
acquireSlot(srv) ==
    IF slot_available(srv)
    THEN [srv |-> [srv EXCEPT !.current_concurrency_ = @ + 1], ret |-> TRUE]
    ELSE [srv |-> srv, ret |-> FALSE]

\* a wait_for that reports success at the deadline whatever the predicate
wait_for_expired_Admit(srv) ==
    [srv |-> [srv EXCEPT !.current_concurrency_ = @ + 1], ret |-> TRUE]

\* acquireSlot when the deadline of wait_for has passed: the predicate is
\* evaluated a last time
wait_for_expired(srv) == acquireSlot(srv)

\* releaseSlot up to the unlock
releaseSlot(srv) == [srv EXCEPT !.current_concurrency_ = @ - 1]

\* a handler whose 504 path leaves without running the guard
handler_return_Leak504(srv, hr, st) ==
    IF hr.guard /\ st # 504
    THEN [srv |-> releaseSlot(srv),
          hr |-> [hr EXCEPT !.status = st, !.released = @ + 1,
                            !.guard = FALSE, !.pc = "notify",
                            !.deadline = 0, !.model = ""]]
    ELSE [srv |-> srv,
          hr |-> [hr EXCEPT !.status = st, !.pc = "done", !.deadline = 0,
                            !.model = ""]]

\* the handler sets the status and returns: ~SlotGuard runs releaseSlot if
\* the guard was constructed
handler_return(srv, hr, st) ==
    IF hr.guard
    THEN [srv |-> releaseSlot(srv),
          hr |-> [hr EXCEPT !.status = st, !.released = @ + 1,
                            !.guard = FALSE, !.pc = "notify",
                            !.deadline = 0, !.model = ""]]
    ELSE [srv |-> srv,
          hr |-> [hr EXCEPT !.status = st, !.pc = "done", !.deadline = 0,
                            !.model = ""]]

\* the slot was acquired: SlotGuard is constructed
admitted(hr) ==
    [hr EXCEPT !.pc = "admitted", !.guard = TRUE, !.acquired = @ + 1,
               !.deadline = 0]

InitServer ==
    /\ provider = QueueProvider(DefaultTimeout, 0)
    /\ now = 0
    /\ pc_prod = "idle"
    /\ pc_ctl = "idle"
    /\ cons = Idle
    /\ last = Call("new", TRUE, <<>>)
    /\ pushed = <<>>
    /\ received = <<>>
    /\ end_called = FALSE
    /\ last_push = 0
    /\ expired_seen = FALSE
    /\ idle_at_call = FALSE
    /\ stream = NoStream
    /\ NoCluster
    /\ rlast = RouterCall("new", "", "", FALSE, <<>>)
    /\ boot = NotStarted
    /\ NoWorkerSide
    /\ \E mc \in 1..MaxConcurrency, key \in BOOLEAN : server = Server(mc, key)
    /\ handlers = [h \in HandlerIds |-> NoHandler]

\* the key of a server that has one configured
ApiKey == "key"

\* Authorization headers a request may carry, as the words of the value:
\* none, the key with and without the Bearer prefix, and wrong keys
AuthHeaders ==
    {<<>>, <<"Bearer", "key">>, <<"key">>, <<"Bearer", "wrong">>, <<"wrong">>,
     <<"Bearer">>}

\* Server::verifyApiKey
verifyApiKey(srv, auth) ==
    IF ~srv.api_key THEN TRUE
    ELSE IF auth = <<>> THEN FALSE
    ELSE IF Head(auth) = "Bearer" THEN Tail(auth) = <<ApiKey>>
    ELSE auth = <<ApiKey>>

\* frame of a handler step
HandlerFrame == UNCHANGED <<pvars, svars, cvars, rlast, boot, wvars>>

\* a POST arrives: verifyApiKey, then 401, or acquireSlot: lock, predicate;
\* take the slot or block until the deadline
PostRequest(h, auth) ==
    /\ handlers[h].pc = "none"
    /\ IF verifyApiKey(server, auth)
       THEN LET r == acquireSlot(server) IN
            /\ server' = r.srv
            /\ handlers' = [handlers EXCEPT ![h] =
                   IF r.ret THEN admitted(@)
                   ELSE [@ EXCEPT !.pc = "slot_blocked",
                                  !.deadline = now + WaitTimeout]]
       ELSE LET r == handler_return(server, handlers[h], 401) IN
            /\ handlers' = [handlers EXCEPT ![h] = r.hr]
            /\ server' = r.srv
    /\ HandlerFrame

\* a POST with any Authorization header
Arrive(h) == \E auth \in AuthHeaders : PostRequest(h, auth)

\* a woken waiter evaluates the predicate again before the deadline
SlotWake(h) ==
    /\ handlers[h].pc = "slot_woken"
    /\ handlers[h].deadline > now
    /\ LET r == acquireSlot(server) IN
       /\ server' = r.srv
       /\ handlers' = [handlers EXCEPT ![h] =
              IF r.ret THEN admitted(@) ELSE [@ EXCEPT !.pc = "slot_blocked"]]
    /\ HandlerFrame

\* wait_timeout is over: acquired on a last look, or 503 rate_limit_exceeded
SlotTimeout(h) ==
    /\ handlers[h].pc \in {"slot_blocked", "slot_woken"}
    /\ handlers[h].deadline <= now
    /\ LET r == wait_for_expired(server) IN
       IF r.ret
       THEN /\ server' = r.srv
            /\ handlers' = [handlers EXCEPT ![h] = admitted(@)]
       ELSE LET q == handler_return(r.srv, handlers[h], 503) IN
            /\ server' = q.srv
            /\ handlers' = [handlers EXCEPT ![h] = q.hr]
    /\ HandlerFrame

\* slot_cv_ may wake a waiter without a notify
SlotSpuriousWake(h) ==
    /\ handlers[h].pc = "slot_blocked"
    /\ handlers' = [handlers EXCEPT ![h].pc = "slot_woken"]
    /\ UNCHANGED server
    /\ HandlerFrame

\* the admitted handler parses the body and looks the model up: 400 for
\* invalid JSON, a missing model field or an unknown model; else it creates
\* the provider
Parse(h) ==
    /\ handlers[h].pc = "admitted"
    /\ \E body \in {"invalid_json", "no_model"} \cup Models :
       IF body \in Models /\ route(router, "chat", body)
       THEN /\ handlers' = [handlers EXCEPT ![h].pc = "routing",
                                            ![h].provider = TRUE,
                                            ![h].model = body]
            /\ UNCHANGED server
       ELSE LET r == handler_return(server, handlers[h], 400) IN
            /\ handlers' = [handlers EXCEPT ![h] = r.hr]
            /\ server' = r.srv
    /\ HandlerFrame

\* routeChat: 500 if the model is gone; else the callback is dispatched and
\* the handler returns at once (stream: the chunked content provider then
\* runs on this thread until the response is sent) or waits for the first
\* event
RouteRequest(h) ==
    /\ handlers[h].pc = "routing"
    /\ IF ~route(router, "chat", handlers[h].model)
       THEN LET r == handler_return(server, handlers[h], 500) IN
            /\ handlers' = [handlers EXCEPT ![h] = r.hr]
            /\ server' = r.srv
       ELSE \E streamed \in BOOLEAN :
            IF streamed
            THEN LET r == handler_return(server,
                              [handlers[h] EXCEPT !.dispatched = TRUE,
                                                  !.streaming = TRUE],
                              200) IN
                 /\ handlers' = [handlers EXCEPT ![h] = r.hr]
                 /\ server' = r.srv
            ELSE /\ handlers' = [handlers EXCEPT ![h].pc = "unary_wait",
                                                 ![h].dispatched = TRUE]
                 /\ UNCHANGED server
    /\ HandlerFrame

\* the unary wait is over: 504 without an event, 400 for an error event,
\* 200 for a normal event
UnaryAnswer(h) ==
    /\ handlers[h].pc = "unary_wait"
    /\ \E st \in {504, 400, 200} :
       LET r == handler_return(server, handlers[h], st) IN
       /\ handlers' = [handlers EXCEPT ![h] = r.hr]
       /\ server' = r.srv
    /\ HandlerFrame

\* slot_cv_.notify_one() after releaseSlot's unlock: one waiter, if any
SlotNotify(h) ==
    /\ handlers[h].pc = "notify"
    /\ LET waiting == {g \in HandlerIds : handlers[g].pc = "slot_blocked"} IN
       IF waiting = {}
       THEN handlers' = [handlers EXCEPT ![h].pc = "done"]
       ELSE \E g \in waiting :
            handlers' = [handlers EXCEPT ![h].pc = "done",
                                         ![g].pc = "slot_woken"]
    /\ UNCHANGED server
    /\ HandlerFrame

\* the response is sent; the thread takes the next request
Recycle(h) ==
    /\ handlers[h].pc = "done"
    /\ handlers' = [handlers EXCEPT ![h] = NoHandler]
    /\ UNCHANGED server
    /\ HandlerFrame

NextServer ==
    \/ Tick
    \/ RegisterModel("chat", "m1", "local")
    \/ UnregisterModel("m1")
    \/ \E h \in HandlerIds : Arrive(h)
    \/ \E h \in HandlerIds : SlotWake(h)
    \/ \E h \in HandlerIds : SlotTimeout(h)
    \/ \E h \in HandlerIds : SlotSpuriousWake(h)
    \/ \E h \in HandlerIds : Parse(h)
    \/ \E h \in HandlerIds : RouteRequest(h)
    \/ \E h \in HandlerIds : UnaryAnswer(h)
    \/ \E h \in HandlerIds : SlotNotify(h)
    \/ \E h \in HandlerIds : Recycle(h)

SpecServer == InitServer /\ [][NextServer]_vars

\* ------------------------------------------------------------------------
\* The endpoints of a server with or without an API key: GET /health,
\* GET /v1/models and the POST endpoints up to admission.
\* ------------------------------------------------------------------------

\* handleHealth: status and the concurrency counter
health_body(srv) ==
    <<[line |-> "healthy", type |-> "health", id |-> srv.current_concurrency_]>>

\* handleModels: one entry for every name listModels() returns
models_body(r) ==
    [i \in DOMAIN listAllModels(r) |->
        [line |-> listAllModels(r)[i], type |-> "model", id |-> 0]]

\* GET /health
GetHealth(h, auth) ==
    /\ handlers[h].pc = "none"
    /\ LET r == handler_return(server,
                    [handlers[h] EXCEPT !.body = health_body(server)], 200) IN
       /\ handlers' = [handlers EXCEPT ![h] = r.hr]
       /\ server' = r.srv
    /\ HandlerFrame

\* GET /v1/models, GET /models
GetModels(h, auth) ==
    /\ handlers[h].pc = "none"
    /\ LET r == handler_return(server,
                    [handlers[h] EXCEPT !.body = models_body(router)], 200) IN
       /\ handlers' = [handlers EXCEPT ![h] = r.hr]
       /\ server' = r.srv
    /\ HandlerFrame

NextEndpoints ==
    \/ Tick
    \/ RegisterModel("chat", "m1", "local")
    \/ UnregisterModel("m1")
    \/ \E h \in HandlerIds, auth \in AuthHeaders : PostRequest(h, auth)
    \/ \E h \in HandlerIds, auth \in AuthHeaders : GetHealth(h, auth)
    \/ \E h \in HandlerIds, auth \in AuthHeaders : GetModels(h, auth)
    \/ \E h \in HandlerIds : SlotTimeout(h)
    \/ \E h \in HandlerIds : Recycle(h)

SpecEndpoints == InitServer /\ [][NextEndpoints]_vars

\* ------------------------------------------------------------------------
\* Unary chat response (Server::handleChatCompletions, stream = false): the
\* handler holds a slot, has created the request's provider and routed the
\* request; the model callback pushes into the provider while the handler
\* waits for the first event.
\* ------------------------------------------------------------------------

\* options_.default_timeout: the value the request's provider was built with
default_timeout == provider.timeout_

\* ChatCompletionsJSONEncoder::encode: one chat.completion object that
\* carries the chunk's content
json_encode(chunk) ==
    <<[line |-> "chat.completion", type |-> chunk.type, id |-> chunk.id]>>

\* ErrorEncoder::server_error("Request timeout")
request_timeout == <<[line |-> "Request timeout", type |-> "Error", id |-> 0]>>

\* a unary branch that answers 200 whatever wait_pop_for returned
unary_status_Always200(ret) == 200

\* the status the unary branch sets for the result of wait_pop_for
unary_status(ret) ==
    IF ret = <<>> THEN 504
    ELSE IF is_error(ret[1]) THEN 400
    ELSE 200

\* the content the unary branch sets for the result of wait_pop_for
unary_body(ret) == IF ret = <<>> THEN request_timeout ELSE json_encode(ret[1])

InitUnary ==
    /\ \E T \in Timeouts : provider = QueueProvider(T, 0)
    /\ now = 0
    /\ pc_prod = "idle"
    /\ pc_ctl = "idle"
    /\ cons = Idle
    /\ last = Call("new", TRUE, <<>>)
    /\ pushed = <<>>
    /\ received = <<>>
    /\ end_called = FALSE
    /\ last_push = 0
    /\ expired_seen = FALSE
    /\ idle_at_call = FALSE
    /\ stream = NoStream
    /\ NoCluster
    /\ rlast = RouterCall("new", "", "", FALSE, <<>>)
    /\ boot = NotStarted
    /\ NoWorkerSide
    /\ server = [Server(1, FALSE) EXCEPT !.current_concurrency_ = 1]
    /\ handlers = [h \in HandlerIds |->
                      IF h = 1
                      THEN [admitted(NoHandler) EXCEPT !.pc = "unary_wait",
                                                       !.provider = TRUE,
                                                       !.dispatched = TRUE]
                      ELSE NoHandler]

\* the model callback pushes OutputChunk::Error
CallbackPushError ==
    /\ pc_prod = "idle"
    /\ Len(pushed) < MaxPush
    /\ LET chunk == [type |-> "Error", id |-> Len(pushed) + 1]
           r == push(provider, chunk, now) IN
       /\ provider' = r.p
       /\ pushed' = IF r.ret THEN Append(pushed, chunk) ELSE pushed
       /\ pc_prod' = IF r.ret THEN "notify_one" ELSE "idle"
    /\ UNCHANGED <<now, pc_ctl, cons, received, hvars, stream>>
    /\ UNCHANGED <<cvars, fvars>>

\* lines 402-416: wait_pop_for returned r.ret; status, content, return
AfterUnaryWait(h, r) ==
    /\ provider' = r.p
    /\ received' = received \o r.ret
    /\ cons' = Idle
    /\ last' = Call("wait_pop_for", r.ret # <<>>, r.ret)
    /\ LET q == handler_return(server,
                    [handlers[h] EXCEPT !.body = unary_body(r.ret)],
                    unary_status(r.ret)) IN
       /\ handlers' = [handlers EXCEPT ![h] = q.hr]
       /\ server' = q.srv
    /\ UNCHANGED <<now, pc_prod, pc_ctl, pushed, end_called, last_push,
                   expired_seen, idle_at_call>>
    /\ UNCHANGED <<svars, cvars, rlast, boot, wvars>>

\* the handler keeps waiting
UnaryBlock(p, pc, deadline) ==
    /\ provider' = p
    /\ cons' = [pc |-> pc, deadline |-> deadline]
    /\ UNCHANGED <<now, pc_prod, pc_ctl, pushed, received, hvars>>
    /\ UNCHANGED <<svars, cvars, fvars>>

\* provider->wait_pop_for(options_.default_timeout): lock, predicate
UnaryWaitPopFor(h) ==
    /\ handlers[h].pc = "unary_wait"
    /\ cons.pc = "idle"
    /\ LET w == wait_predicate(provider, now) IN
       IF w.ret
       THEN AfterUnaryWait(h, wait_pop_tail(w.p, now))
       ELSE UnaryBlock(w.p, "wait_pop_for_blocked", now + default_timeout)

\* the waiting handler is woken before its deadline
UnaryWake(h) ==
    /\ handlers[h].pc = "unary_wait"
    /\ cons.pc = "wait_pop_for_woken"
    /\ cons.deadline > now
    /\ LET w == wait_predicate(provider, now) IN
       IF w.ret
       THEN AfterUnaryWait(h, wait_pop_tail(w.p, now))
       ELSE UnaryBlock(w.p, "wait_pop_for_blocked", cons.deadline)

\* default_timeout is over: wait_for returns the predicate's value
UnaryWaitTimeout(h) ==
    /\ handlers[h].pc = "unary_wait"
    /\ cons.pc \in {"wait_pop_for_blocked", "wait_pop_for_woken"}
    /\ cons.deadline <= now
    /\ LET w == wait_predicate(provider, now) IN
       IF w.ret
       THEN AfterUnaryWait(h, wait_pop_tail(w.p, now))
       ELSE AfterUnaryWait(h, [p |-> w.p, ret |-> <<>>])

NextUnary ==
    \/ Tick
    \/ CallbackPush
    \/ CallbackPushError
    \/ CallbackEnd
    \/ CallbackNotify
    \/ SpuriousWake
    \/ \E h \in HandlerIds : UnaryWaitPopFor(h)
    \/ \E h \in HandlerIds : UnaryWake(h)
    \/ \E h \in HandlerIds : UnaryWaitTimeout(h)
    \/ \E h \in HandlerIds : SlotNotify(h)

SpecUnary == InitUnary /\ [][NextUnary]_vars


\* ========================================================================
\* Properties
\* ========================================================================

\* C1: once end() or disconnect() has been called, every later push returns
\* false and leaves the queue as it was; and the producer is never blocked:
\* whenever it is at its call site, push can run.
C1_PushAfterEndRefused ==
    /\ [](pc_prod = "idle" /\ Len(pushed) < MaxPush => ENABLED Push)
    /\ [][(end_called /\ last'.op = "push" /\ (last' # last \/ pushed' # pushed))
           => (last'.ret = FALSE /\ provider'.queue_ = provider.queue_)]_vars

\* a push was refused after end()/disconnect() while chunks were still queued
C1_Witness ==
    /\ end_called
    /\ last.op = "push"
    /\ last.ret = FALSE
    /\ provider.queue_ # <<>>

\* C2: the chunks handed to the consumer, followed by the chunks still in the
\* queue, are exactly the chunks push accepted, in push order: nothing is
\* lost, duplicated or reordered, whichever of pop / wait_pop / wait_pop_for
\* the consumer uses and however producer and consumer interleave.
C2_FifoNoLossNoDup == received \o provider.queue_ = pushed

\* the consumer has read two chunks of an open provider and more are queued
C2_Witness ==
    /\ ~end_called
    /\ Len(received) >= 2
    /\ provider.queue_ # <<>>

\* C3 as stated: an is_ended() call made when no push has occurred for more
\* than the timeout returns true, whatever the queue holds.
C3_Original == (last.op = "is_ended" /\ idle_at_call) => last.ret

\* C3 amended: once is_ended() has been called with neither push nor
\* reset_timeout for more than the timeout, that call and every later
\* is_ended() call return true exactly when the queue is empty.
C3_EndedOnceExpired ==
    (last.op = "is_ended" /\ expired_seen)
        => (last.ret <=> provider.queue_ = <<>>)

\* is_ended() is true after an inactivity timeout was observed, although
\* nobody called end() and last_activity_ has been refreshed since
C3_Witness ==
    /\ expired_seen
    /\ ~end_called
    /\ last.op = "is_ended"
    /\ last.ret
    /\ received # <<>>
    /\ now - provider.last_activity_ <= provider.timeout_

DoneCount(lines) == Cardinality({i \in DOMAIN lines : lines[i] = DoneMarker})

DoneOnceAndLast ==
    /\ DoneCount(stream.written) <= 1
    /\ stream.sink_closed <=> DoneCount(stream.written) = 1
    /\ stream.sink_closed =>
           stream.written[Len(stream.written)] = DoneMarker

\* C4: a streamed chat response carries at most one "data: [DONE]" line,
\* nothing is written after it, and the sink is closed exactly when it has
\* been written: on the end-event path, the provider-ended path and the
\* elapsed-time path, and however often the library calls the loop again;
\* and while the client stays connected the line is eventually written.
C4_ExactlyOneDoneLast ==
    /\ []DoneOnceAndLast
    /\ <>(stream.sink_closed \/ ~stream.client_open)

\* [DONE] was written and the sink closed after two data lines, with the
\* client still connected
C4_Witness ==
    /\ stream.sink_closed
    /\ Len(stream.written) >= 3
    /\ stream.client_open

\* C5 as stated: when the client has closed the connection in mid-stream
\* and the frontend is done with the request, the request's provider has
\* been disconnected.
C5_Original ==
    (stream.released /\ stream.closed_midstream) => provider.disconnected_

\* C6 as stated: the forwarding machinery ends the provider of a forwarded
\* request once and only once, on every outcome of forwarding: when
\* forward_request gave up (model or worker not resolvable) and when the
\* pending request was completed, the provider has been ended exactly once.
C6_Original ==
    /\ req.ends <= 1
    /\ req.pc \in {"returned_false", "worker_not_found", "completed"}
           => req.ends = 1

\* C7 as stated: a REGISTER_ACK with success = true is sent only if, when
\* the registration was decided, neither model_to_worker nor the master's
\* local router had the model name.
C7_Original ==
    (mlast.op = "register_ack" /\ mlast.success)
        => (~mlast.had_mapping /\ ~mlast.had_local)

\* C8 as stated: the model registered locally on the master stays
\* registered with its local callback, list-all contains its name exactly
\* once, and a request for it goes to the local callback.
C8_Original ==
    /\ router["chat"]["shared"] = "local"
    /\ Len(SelectSeq(listAllModels(router), LAMBDA x : x = "shared")) = 1
    /\ (req.pc # "none" /\ req.model = "shared") => req.route = "local"

\* the connected workers that have registered model m
Holders(m) == {w \in DOMAIN workers : m \in workers[w].registered_models}

OneWorkerPerModel ==
    \A m \in Models :
        /\ Cardinality(Holders(m)) <= 1
        /\ Holders(m) # {} =>
               (has_model(model_to_worker, m)
                    /\ Holders(m) = {model_to_worker[m]})

\* the decision of worker w's registration and what it changed
RegisterArbitrated(w) ==
    LET m == reg[w].model IN
    IF mlast'.success
    THEN /\ ~has_model(model_to_worker, m)
         /\ w \in DOMAIN workers
         /\ model_to_worker' = MapPut(model_to_worker, m, w)
    ELSE /\ has_model(model_to_worker, m) \/ w \notin DOMAIN workers
         /\ model_to_worker' = model_to_worker
         /\ router' = router
         /\ workers' = workers

\* C9: no model name is held by two workers, and the holder is the worker
\* model_to_worker names; a registration succeeds exactly when its worker is
\* connected and the name is free at the moment it is decided, so of two
\* workers registering one name, in sequence or concurrently, one succeeds
\* and model_to_worker points to it; a refused registration (at the
\* has_model check or inside register_model) changes neither map nor router.
C9_OneWorkerPerModel ==
    /\ []OneWorkerPerModel
    /\ [][\A w \in WorkerIds : HandleRegisterAck(w) => RegisterArbitrated(w)]_vars
    /\ [][(\E w \in WorkerIds, m \in Models, t \in ModelTypes :
               HandleRegister(w, m, t))
           => (model_to_worker' = model_to_worker /\ router' = router)]_vars

\* two connected workers raced for one name: the one that passed the
\* has_model check second-to-commit was refused inside register_model
C9_Witness ==
    /\ mlast.op = "register_ack"
    /\ ~mlast.success
    /\ mlast.stage = "register_model"
    /\ mlast.worker \in DOMAIN workers
    /\ has_model(model_to_worker, mlast.model)
    /\ model_to_worker[mlast.model] \in DOMAIN workers \ {mlast.worker}
    /\ Holders(mlast.model) = {model_to_worker[mlast.model]}

\* C10 as stated: after the sweeper has pruned workers, none of their
\* models is left in model_to_worker and the router has no forwarder for
\* any of them.
C10_Original ==
    mlast.op = "sweep" =>
        \A m \in mlast.models :
            /\ ~has_model(model_to_worker, m)
            /\ \A t \in ModelTypes : router[t][m] # "forward"

\* C11 as stated: when a worker sends DISCONNECT, the master removes the
\* worker from workers and its models from model_to_worker and from the
\* router.
C11_Original ==
    [][\A w \in WorkerIds :
         WorkerDisconnect(w) =>
             /\ w \notin DOMAIN workers'
             /\ \A m \in workers[w].registered_models :
                    /\ ~has_model(model_to_worker', m)
                    /\ \A t \in ModelTypes : router'[t][m] # "forward"]_vars

\* name m is an element of the list
InList(names, m) == \E i \in DOMAIN names : names[i] = m

\* C12: a registration puts the name into the list of its modality, and a
\* name leaves the list of a modality only by an unregister of that name
\* (ModelRouter::unregister* of the modality or Server::unregisterModel):
\* registering another name, registering the name in another modality,
\* routing and listing never remove it.
C12_ListedUntilUnregistered ==
    /\ [][\A t \in ModelTypes, m \in Models :
            (rlast'.op = "register" /\ rlast'.type = t /\ rlast'.model = m)
                => InList(listModels(router', t), m)]_vars
    /\ [][\A t \in ModelTypes, m \in Models :
            (InList(listModels(router, t), m)
                /\ ~InList(listModels(router', t), m))
                => /\ rlast'.model = m
                   /\ \/ rlast'.op = "unregisterModel"
                      \/ rlast'.op = "unregister" /\ rlast'.type = t]_vars

\* "shared" was just registered for embedding while "shared" and "m1" were
\* listed for chat, and both still are
C12_Witness ==
    /\ rlast.op = "register"
    /\ rlast.type = "embedding"
    /\ rlast.model = "shared"
    /\ InList(listModels(router, "chat"), "shared")
    /\ InList(listModels(router, "chat"), "m1")
    /\ InList(listModels(router, "embedding"), "shared")

\* the handlers that have acquired a slot and not yet released it
SlotHolders == {h \in HandlerIds : handlers[h].acquired > handlers[h].released}

\* C13: under every interleaving of concurrent POST handlers, the number of
\* handlers holding an admission slot is between 0 and max_concurrency, and
\* it is what current_concurrency_ counts.
C13_SlotsWithinCapacity ==
    /\ Cardinality(SlotHolders) \in 0..server.max_concurrency
    /\ server.current_concurrency_ = Cardinality(SlotHolders)

\* all slots of a server with max_concurrency 2 are held and a third
\* handler is blocked in acquireSlot
C13_Witness ==
    /\ server.max_concurrency = 2
    /\ Cardinality(SlotHolders) = 2
    /\ \E h \in HandlerIds : handlers[h].pc = "slot_blocked"

\* C14: a handler releases at most what it acquired, and once it has
\* returned (any status) it has released exactly as often as it acquired:
\* once for every status reached behind the guard (400, 500, 504, 200,
\* streamed 200), never for 401 and 503; with no handler in flight the
\* concurrency counter is 0.
C14_ReleasedExactlyOnce ==
    /\ \A h \in HandlerIds :
          /\ handlers[h].released <= handlers[h].acquired
          /\ handlers[h].acquired <= 1
          /\ handlers[h].pc \in {"notify", "done"} =>
                /\ handlers[h].released = handlers[h].acquired
                /\ handlers[h].acquired =
                       IF handlers[h].status \in {401, 503} THEN 0 ELSE 1
    /\ (\A h \in HandlerIds : handlers[h].pc \in {"none", "notify", "done"})
           => server.current_concurrency_ = 0

\* three handlers have returned, with 504, with 503 and with 500, and the
\* counter is back at 0
C14_Witness ==
    /\ \A h \in HandlerIds : handlers[h].pc = "done"
    /\ \E h \in HandlerIds : handlers[h].status = 504 /\ handlers[h].released = 1
    /\ \E h \in HandlerIds : handlers[h].status = 503 /\ handlers[h].released = 0
    /\ \E h \in HandlerIds : handlers[h].status = 500 /\ handlers[h].released = 1
    /\ server.current_concurrency_ = 0

\* handler h is waiting in acquireSlot
SlotWaiting(h) == handlers[h].pc \in {"slot_blocked", "slot_woken"}

\* C15: a handler waits in acquireSlot for wait_timeout at most; when the
\* wait is over and every slot is still held it answers 503, having taken
\* no slot, created no provider and dispatched no callback, and the step
\* changes neither the counter nor any other handler.
C15_RateLimitedAfterWait ==
    /\ [](\A h \in HandlerIds :
            /\ SlotWaiting(h) => handlers[h].deadline - now <= WaitTimeout
            /\ (SlotWaiting(h) /\ handlers[h].deadline <= now)
                   => ENABLED SlotTimeout(h)
            /\ handlers[h].status = 503 =>
                   (handlers[h].acquired = 0 /\ ~handlers[h].provider
                        /\ ~handlers[h].dispatched))
    /\ [][\A h \in HandlerIds :
            (SlotTimeout(h) /\ ~slot_available(server))
                => /\ handlers'[h].status = 503
                   /\ handlers'[h].pc = "done"
                   /\ server' = server
                   /\ \A g \in HandlerIds \ {h} : handlers'[g] = handlers[g]]_vars
    /\ [][\A h \in HandlerIds :
            (handlers[h].status # 503 /\ handlers'[h].status = 503)
                => (SlotWaiting(h) /\ handlers[h].deadline <= now
                        /\ ~slot_available(server))]_vars

\* a third request was answered 503 while the two slots stay held by
\* handlers waiting for their callbacks
C15_Witness ==
    /\ server.max_concurrency = 2
    /\ server.current_concurrency_ = 2
    /\ \E h \in HandlerIds :
          /\ handlers[h].pc = "done"
          /\ handlers[h].status = 503
          /\ \A g \in HandlerIds \ {h} : handlers[g].pc = "unary_wait"

\* handler h has returned
Returned(h) == handlers[h].pc \in {"notify", "done"}

\* C16: the unary handler never waits longer than default_timeout, and what
\* it answers is decided by what wait_pop_for returned: 504 with the timeout
\* error when it returned nothing (and then the provider has ended or the
\* wait was over), 400 when the event is an error event, 200 with the
\* encoded event otherwise; an event it returned is the first one pushed.
C16_UnaryAnswer ==
    /\ [](\A h \in HandlerIds :
            /\ (handlers[h].pc = "unary_wait" /\ cons.pc # "idle") =>
                  /\ cons.deadline - now <= default_timeout
                  /\ cons.deadline <= now => ENABLED UnaryWaitTimeout(h)
            /\ (Returned(h) /\ handlers[h].acquired = 1) =>
                  /\ last.op = "wait_pop_for"
                  /\ handlers[h].status = 504 <=> last.val = <<>>
                  /\ handlers[h].status = 400 <=>
                         (last.val # <<>> /\ is_error(last.val[1]))
                  /\ handlers[h].status = 200 <=>
                         (last.val # <<>> /\ ~is_error(last.val[1]))
                  /\ handlers[h].status \in {504, 400, 200}
                  /\ last.val # <<>> =>
                         /\ handlers[h].body = json_encode(last.val[1])
                         /\ last.val[1] = pushed[1]
                  /\ last.val = <<>> => handlers[h].body = request_timeout)
    /\ [][\A h \in HandlerIds :
            (handlers[h].pc = "unary_wait" /\ Returned(h)'
                 /\ handlers'[h].status = 504)
                => \/ provider'.ended_
                   \/ (cons.pc # "idle" /\ cons.deadline <= now)]_vars

\* the handler answered 200 with the first of two pushed events, after it
\* had been blocked in wait_pop_for
C16_Witness ==
    /\ handlers[1].pc = "done"
    /\ handlers[1].status = 200
    /\ Len(pushed) >= 2
    /\ received = <<pushed[1]>>
    /\ handlers[1].body = json_encode(pushed[1])
    /\ now > 0

\* C17: pop() returns the head of the queue whenever the queue is not
\* empty, whatever the provider's state, and returns nothing only when the
\* queue is empty.
C17_Original ==
    [][Pop => (provider.queue_ # <<>>
                  => last'.val = <<Head(provider.queue_)>>)]_vars

\* the inactivity timeout of an open provider has expired
Expired == ~provider.ended_ /\ now - provider.last_activity_ > provider.timeout_

\* C18: a consumer blocked in wait_pop() on an open provider returns once
\* the inactivity timeout has expired, without any push, end or disconnect.
C18_Original ==
    (cons.pc = "wait_pop_blocked" /\ Expired) ~> (cons.pc = "idle")

\* lifecycle state open: neither end() nor disconnect() was called and no
\* timeout has been recorded
Open(p) == ~p.ended_ /\ ~p.disconnected_

\* the time since the last activity is within the timeout
WithinTimeout(p, t) == t - p.last_activity_ <= p.timeout_

\* is_writable() and is_alive() return true iff the provider is open and
\* within its timeout
WritableAliveIffOpenInTime ==
    /\ IsWritable => (last'.ret <=> (Open(provider) /\ WithinTimeout(provider, now)))
    /\ IsAlive => (last'.ret <=> (Open(provider) /\ WithinTimeout(provider, now)))

\* C19 as stated: in every reachable state is_writable() and is_alive() are
\* true iff the state is open and within the timeout, and is_ended() is true
\* iff the state is not open and the queue is empty.
C19_Original ==
    [][/\ WritableAliveIffOpenInTime
       /\ IsEnded => (last'.ret <=> (~Open(provider) /\ provider.queue_ = <<>>))]_vars

\* C19: is_writable() and is_alive() are true iff the state is open and
\* within the timeout; is_ended() is true iff the queue is empty and the
\* state is not open or the timeout has expired, and in the latter case the
\* call records the timeout, so the state it leaves is not open.
C19_ObserversMatchState ==
    [][/\ WritableAliveIffOpenInTime
       /\ IsEnded =>
            /\ last'.ret <=> /\ provider.queue_ = <<>>
                             /\ (~Open(provider) \/ ~WithinTimeout(provider, now))
            /\ ~WithinTimeout(provider, now) => ~Open(provider')
            /\ last'.ret => ~Open(provider')]_vars

\* is_ended() has returned true for a provider on which neither end() nor
\* disconnect() was ever called
C19_Witness ==
    /\ last.op = "is_ended"
    /\ last.ret
    /\ ~end_called
    /\ provider.ended_
    /\ ~provider.disconnected_

\* what callers can observe of provider p at time t: the queue, the
\* lifecycle flags and the results of is_writable, is_alive, is_ended, push
Observed(p, t) ==
    [queue |-> p.queue_, ended |-> p.ended_, disconnected |-> p.disconnected_,
     writable |-> is_writable(p, t), alive |-> is_alive(p, t),
     is_ended |-> is_ended(p, t).ret,
     push |-> push(p, TextDelta(0), t).ret]

\* C20: end() on a provider that end() or disconnect() has already ended,
\* and disconnect() on a disconnected provider, change nothing that can be
\* observed: queue, lifecycle state, is_writable, is_alive, is_ended, push.
C20_EndDisconnectIdempotent ==
    [][/\ (End /\ provider.ended_)
            => (provider' = provider
                  /\ Observed(provider', now') = Observed(provider, now))
       /\ (Disconnect /\ provider.disconnected_)
            => (provider' = provider
                  /\ Observed(provider', now') = Observed(provider, now))]_vars

\* end() has just been called on a disconnected provider that still holds
\* a queued event
C20_Witness ==
    /\ last.op = "end"
    /\ provider.disconnected_
    /\ provider.queue_ # <<>>

\* a push has succeeded, neither end() nor disconnect() was called, and the
\* most recent successful push is at most the timeout ago
RecentlyPushed ==
    /\ pushed # <<>>
    /\ ~end_called
    /\ now - last_push <= provider.timeout_

\* C21: within T of its most recent successful push a provider on which
\* end()/disconnect() was not called has no timeout recorded, is_ended()
\* returns false and push is accepted, however old the provider is.
C21_PushRestartsClock ==
    /\ [](RecentlyPushed =>
            /\ ~provider.ended_
            /\ ~is_ended(provider, now).ret
            /\ push(provider, TextDelta(0), now).ret)
    /\ [][(RecentlyPushed /\ IsEnded) => ~last'.ret]_vars
    /\ [][(RecentlyPushed /\ Push) => last'.ret]_vars

\* a provider older than its timeout, with every pushed event already
\* read, answers is_ended() with false within T of the last push
C21_Witness ==
    /\ RecentlyPushed
    /\ now > provider.timeout_
    /\ last_push > 0
    /\ provider.queue_ = <<>>
    /\ last.op = "is_ended"
    /\ ~last.ret

\* C22: route returns false, starts nothing and leaves the provider alone
\* when the name is not registered under the modality asked for, whatever
\* the other modalities hold; else it returns true at once, having started
\* a thread that has not yet called the callback, and that thread calls the
\* callback found at the lookup exactly once, whatever is registered later.
C22_RouteDispatch ==
    /\ [][\A t \in ModelTypes, m \in Models :
            RouteDispatch(t, m) =>
               /\ rlast'.ret <=> router[t][m] # "none"
               /\ provider' = provider
               /\ ~rlast'.ret => req' = req
               /\ rlast'.ret => /\ req'.pc = "thread_started"
                                /\ req'.invoked = 0
                                /\ req'.route = router[t][m]]_vars
    /\ [][CallbackInvoke => (req'.ran = req.route /\ req'.invoked = 1)]_vars
    /\ [](/\ req.invoked <= 1
          /\ req.pc \in {"callback_running", "caught", "catch_end", "done"}
                => (req.invoked = 1 /\ req.ran = req.route))

\* the callback found at the lookup has run once although the name was
\* registered again with another callback before the thread ran, and the
\* name is also registered under the other modality
C22_Witness ==
    /\ req.pc = "done"
    /\ req.invoked = 1
    /\ req.type = "chat"
    /\ req.ran = "local"
    /\ router["chat"][req.model] = "forward"
    /\ router["embedding"][req.model] # "none"

\* C23: whatever a dispatched callback throws, the process keeps running,
\* and once the thread is through one error event has been pushed and the
\* provider is ended.
C23_Original ==
    /\ req.pc # "terminated"
    /\ (req.pc = "done" /\ req.thrown # "none") =>
          /\ provider.ended_
          /\ \E i \in DOMAIN provider.queue_ : is_error(provider.queue_[i])

\* C24: registering a name that is already registered under the same
\* modality changes nothing (the earlier callback stays), while a name held
\* by another modality does not stand in the way.
C24_Original ==
    [][\A t \in ModelTypes, m \in Models, c \in {"local", "forward"} :
          RegisterModel(t, m, c) =>
             IF router[t][m] # "none" THEN router' = router
             ELSE router'[t][m] = c]_vars

\* C25: on a server with an API key, a request on any endpoint whose
\* Authorization header is neither "Bearer <key>" nor "<key>" is answered
\* 401 with no content, and changes nothing else.
C25_Original ==
    [][\A h \in HandlerIds, auth \in AuthHeaders :
          (/\ server.api_key
           /\ auth \notin {<<"Bearer", ApiKey>>, <<ApiKey>>}
           /\ PostRequest(h, auth) \/ GetHealth(h, auth) \/ GetModels(h, auth))
             => /\ handlers'[h].status = 401
                /\ handlers'[h].body = <<>>
                /\ handlers'[h].acquired = 0
                /\ server' = server]_vars

\* C26: run() returns MASTER only after a successful bind of P, a process
\* that is master holds both P and P + 1000 once its master thread is
\* through its binds, a process that bound both returns MASTER, a worker
\* was answered by a master's control endpoint, and a failed run() is not
\* running.
C26_Original ==
    /\ boot.ret = "MASTER" => boot.probed
    /\ (boot.ret = "MASTER" /\ boot.master \in {"listening", "listen_failed"})
          => (boot.port_p = "self" /\ boot.port_c = "self")
    /\ (boot.pc = "returned" /\ boot.master = "listening") => boot.ret = "MASTER"
    /\ boot.ret = "WORKER" => boot.acked
    /\ boot.ret = "STANDALONE" => (~boot.running_ /\ boot.mode_ = "STANDALONE")

\* the consumer is blocked in cv_.wait / cv_.wait_for
Blocked == cons.pc \in {"wait_pop_blocked", "wait_pop_for_blocked"}

\* a push was accepted and not yet read, or end() / disconnect() was called
Mutated == provider.queue_ # <<>> \/ end_called

C28_UnknownResponseDropped ==
    /\ [][((PostFailed \/ HandleResponse) /\ RequestId \notin pending_requests)
             => UNCHANGED <<provider, pending_requests, workers,
                            model_to_worker, router>>]_vars
    /\ [](req.ends <= 1)

\* the POST failed after the worker had received the request, and the
\* worker answered twice: one of the three responses drove the provider
C28_Witness ==
    /\ req.post = "failed"
    /\ req.delivered
    /\ req.responses = 2
    /\ req.ends = 1
    /\ provider.ended_
    /\ pending_requests = {}

\* C29: every record inserted into pending_requests_ is eventually removed,
\* by the worker's response or by a timeout, even when the worker accepted
\* the FORWARD_REQUEST with 200 and never responds.
C29_Original == (RequestId \in pending_requests) ~> (RequestId \notin pending_requests)

\* C30: when forward_request cannot resolve the model name to a worker id,
\* or the worker id to a connected worker, it pushes a worker_not_found
\* error on the consumer's provider, returns false, inserts nothing into
\* pending_requests_ and sends no frame.
C30_Original ==
    [][(/\ ForwardRequest
        /\ \/ ~has_model(model_to_worker, req.model)
           \/ model_to_worker[req.model] \notin DOMAIN workers
        /\ push(provider, [type |-> "Error", id |-> 0], now).ret)
         => /\ Len(provider'.queue_) = Len(provider.queue_) + 1
            /\ provider'.queue_[Len(provider'.queue_)].type = "Error"
            /\ pending_requests' = pending_requests
            /\ req'.post = "none"]_vars

\* C31: the normal chunks a worker's callback pushes before ending reach
\* the consumer's provider on the master in the same order and with the
\* same kind and content (text deltas, a final text even when empty,
\* embeddings, bytes), followed by one end.
C31_Original ==
    (relay.pc = "delivered" /\ \A i \in 1..Len(relay.chunks) : ~is_error(relay.chunks[i]))
        => (provider.queue_ = relay.chunks /\ provider.ended_)

\* C32: the worker binds its local endpoint before it sends HANDSHAKE, so
\* the master never holds a record of a worker whose endpoint was never
\* bound, and no REGISTER_MODEL is sent before the endpoint is bound.
C32_Original ==
    /\ ("w1" \in DOMAIN workers) => agent.ever_bound
    /\ ~agent.early_register

\* C37: once the master has pruned a worker whose agent is still connected
\* and whose heartbeats reach the master again, eventually the worker is in
\* workers_ again or the agent becomes disconnected.
C37_Original ==
    (agent.connected_ /\ agent.heartbeat = "running" /\ "w1" \notin DOMAIN workers)
        ~> ("w1" \in DOMAIN workers \/ ~agent.connected_)

\* a body shorter than the header, a magic or version mismatch, or a
\* payload that is not parseable JSON
Malformed(frame) ==
    \/ frame.size = "short"
    \/ frame.magic # CLUSTER_MAGIC
    \/ frame.version # PROTOCOL_VERSION
    \/ frame.payload = "garbage"

\* the last POST carried a malformed frame
MalformedPost == wire' # wire /\ Malformed(wire'.frame)

\* the manager's maps, the router and the consumer's provider
MasterUnchanged == UNCHANGED <<workers, model_to_worker, pending_requests, router, provider>>

\* C33 as stated: a malformed frame on any /internal/ endpoint is answered
\* 400 and changes no master state.
C33_Original == [][MalformedPost => (wire'.status = 400 /\ MasterUnchanged)]_vars

\* C34: in every reachable state of the master model_to_worker_[m] = w
\* exactly when worker w is in workers_ and m is in its registered_models,
\* after any sequence of handshakes (also a second one under a known id),
\* registrations, heartbeats and prunes.
C34_Original ==
    \A m \in Models, w \in WorkerIds :
        (m \in DOMAIN model_to_worker /\ model_to_worker[m] = w)
            <=> (w \in DOMAIN workers /\ m \in workers[w].registered_models)

\* the streamed responses still being delivered: the handler has returned
\* and the chunked content provider has not finished
Streaming == {h \in HandlerIds : handlers[h].streaming}

\* the admitted handlers that have not returned
InProgress == {h \in HandlerIds : handlers[h].pc \in {"admitted", "routing", "unary_wait"}}

\* C35: the slot of a streamed chat request is held until its stream has
\* finished, so the streamed responses still being delivered plus the
\* requests in progress never exceed max_concurrency.
C35_Original ==
    /\ \A h \in Streaming : h \in SlotHolders
    /\ Cardinality(Streaming) + Cardinality(InProgress) <= server.max_concurrency

\* the call that returned most recently observed the provider writable /
\* not writable: is_writable(), is_alive() or push()
SawWritable == last.op \in {"is_writable", "is_alive", "push"} /\ last.ret

SawUnwritable == last.op \in {"is_writable", "is_alive", "push"} /\ ~last.ret

\* C36: once is_writable() or is_alive() has returned false, or a push has
\* returned false, no later is_writable() / is_alive() returns true and no
\* later push succeeds, whatever calls to reset_timeout, set_timeout, pop
\* or is_ended come in between.
C36_Original == [](SawUnwritable => [](~SawWritable))

\* C38: correlation ids are unique among the forwarded requests in flight:
\* no two forward_request calls hold the same request_id, so no pending
\* record is overwritten and every caller's context is still stored under
\* its own id.
C38_Original ==
    /\ \A a, b \in DOMAIN forwards.ids :
          a # b => forwards.ids[a] # forwards.ids[b]
    /\ \A c \in DOMAIN forwards.ids :
          /\ forwards.ids[c] \in pending_requests
          /\ forwards.context[forwards.ids[c]] = c

\* thread t waits: the lock it asks for is held against it by a thread of S
WaitsOn(t, S) ==
    /\ threads[t].rest # <<>>
    /\ LET i == Head(threads[t].rest) IN
       /\ i.op \in {"lock", "lock_shared"}
       /\ \E u \in S : \E h \in threads[u].held :
             /\ h.m = i.m
             /\ (i.op = "lock" \/ h.mode = "unique")

\* C39: the master is deadlock-free: there is never a set of threads each
\* of which waits for a lock held by a thread of the set, whatever
\* operations run together, although register_model and unregister_worker
\* take the router lock while the manager mutex is held.
C39_DeadlockFree ==
    \A S \in SUBSET DOMAIN threads \ {{}} : \E t \in S : ~WaitsOn(t, S)

\* a registration holds the manager mutex and waits for the router lock
\* while a frontend thread holds it shared
C39_Witness ==
    \E t, u \in DOMAIN threads :
        /\ threads[t].op = "handle_register"
        /\ [m |-> "manager", mode |-> "unique"] \in threads[t].held
        /\ WaitsOn(t, {u})
        /\ threads[u].op = "handleChatCompletions"
        /\ [m |-> "router", mode |-> "shared"] \in threads[u].held
====
